---- MODULE Spec2Model ----
(***************************************************************************)
(* Model of go-aws-sdk.                                                    *)
(*                                                                         *)
(* Package agcod: the Service type, its setters, SetSignatureV4 and the    *)
(* three gift-card operations that call it.  SetSignatureV4 delegates to   *)
(* v4.Signer.Sign of github.com/aws/aws-sdk-go v1.43.41 (the version       *)
(* go.mod pins); the operators under "SDK signer" model what that call     *)
(* does to the *http.Request it is handed.                                 *)
(*                                                                         *)
(* Packages s3, sqs, cloudsearch and ses: the Async* functions.            *)
(* Package s3: Upload.  Package sqs: ReceiveMessage.                       *)
(* Package rds: RestoreDBClusterFromSnapshot, DescribeLatestDBSnapshot.    *)
(* Package elasticache: Get, Set, Delete, SAdd, SCard, Publish, Subscribe. *)
(* All wrapper packages: the package-level client behind sync.Once.        *)
(***************************************************************************)
EXTENDS Integers, Sequences, FiniteSets, TLC

\* ------------------------------------------------------------------ bounds
\* How many times one request object may be passed to SetSignatureV4.
MaxSigns == 2
\* How many setter calls (SetRegion, SetToken, ...) one behaviour makes.
MaxSets == 2

\* ------------------------------------------------------------ basic values
\* Go's nil (pointer, interface, error).  Errors are Err(msg).
Nil == [nil |-> TRUE]
Err(msg) == [error |-> msg]
Procs == {1, 2}

Put(f, k, v) == [x \in (DOMAIN f) \cup {k} |-> IF x = k THEN v ELSE f[x]]
EmptyMap == [x \in {} |-> <<>>]

\* Byte order of the strings the model sorts (sort.Strings, url.Values.Encode).
StrOrder ==
  << "1", "2", "a", "accept", "authorization", "b", "content-type", "host",
     "user-agent", "x-amz-content-sha256", "x-amz-date",
     "x-amz-security-token", "x-amz-target" >>

Rank(s) == CHOOSE i \in 1..Len(StrOrder) : StrOrder[i] = s
StrLeq(a, b) == Rank(a) <= Rank(b)

RECURSIVE InsertSorted(_, _)
InsertSorted(x, sorted) ==
  IF sorted = <<>> THEN <<x>>
  ELSE IF StrLeq(x, Head(sorted)) THEN <<x>> \o sorted
  ELSE <<Head(sorted)>> \o InsertSorted(x, Tail(sorted))

SortStringsNoSort(xs) == xs

\* sort.Strings
RECURSIVE SortStrings(_)
SortStrings(xs) ==
  IF xs = <<>> THEN <<>> ELSE InsertSorted(Head(xs), SortStrings(Tail(xs)))

\* ------------------------------------------------------------ http.Header
\* Header keys as they can be stored in the map.  http.Header.Set stores under
\* the canonical MIME form; a caller writing the map directly can store any case.
RawKeys ==
  << "Accept", "Authorization", "Content-Type", "Host", "User-Agent",
     "X-Amz-Content-Sha256", "X-Amz-Date", "X-Amz-Security-Token",
     "X-Amz-Target", "x-amz-target" >>

\* textproto.CanonicalMIMEHeaderKey on the keys the code and its callers use.
CanonicalMIMEHeaderKey(k) ==
  CASE k \in {"accept", "Accept"} -> "Accept"
    [] k \in {"authorization", "Authorization"} -> "Authorization"
    [] k \in {"content-type", "Content-Type"} -> "Content-Type"
    [] k \in {"host", "Host"} -> "Host"
    [] k \in {"user-agent", "User-Agent"} -> "User-Agent"
    [] k \in {"x-amz-content-sha256", "X-Amz-Content-Sha256"} -> "X-Amz-Content-Sha256"
    [] k \in {"x-amz-date", "X-Amz-Date"} -> "X-Amz-Date"
    [] k \in {"x-amz-security-token", "X-Amz-Security-Token"} -> "X-Amz-Security-Token"
    [] k \in {"x-amz-target", "X-Amz-Target"} -> "X-Amz-Target"

\* strings.ToLower on stored header keys.
ToLower(k) ==
  CASE k = "Accept" -> "accept"
    [] k = "Authorization" -> "authorization"
    [] k = "Content-Type" -> "content-type"
    [] k = "Host" -> "host"
    [] k = "User-Agent" -> "user-agent"
    [] k = "X-Amz-Content-Sha256" -> "x-amz-content-sha256"
    [] k = "X-Amz-Date" -> "x-amz-date"
    [] k = "X-Amz-Security-Token" -> "x-amz-security-token"
    [] k \in {"X-Amz-Target", "x-amz-target"} -> "x-amz-target"

\* A header value is a Go string.  Plain text is Str(s); the values the signer
\* formats (timestamp, digest, Authorization) keep their parts as record fields.
Str(s) == [str |-> s]

\* http.Header.Set / http.Header.Get
HeaderSet(h, k, v) == Put(h, CanonicalMIMEHeaderKey(k), <<v>>)
HeaderGet(h, k) ==
  LET ck == CanonicalMIMEHeaderKey(k)
  IN IF ck \in DOMAIN h /\ h[ck] # <<>> THEN h[ck][1] ELSE Str("")

\* -------------------------------------------------------------- time.Time
\* A time.Time is its Unix second.  Year/month/day of the UTC day number
\* (days since 1970-01-01), as time.Time.UTC().Format computes them.
CivilDate(days) ==
  LET z == days + 719468
      era == z \div 146097
      doe == z - era * 146097
      yoe == (doe - doe \div 1460 + doe \div 36524 - doe \div 146096) \div 365
      doy == doe - (365 * yoe + yoe \div 4 - yoe \div 100)
      mp == (5 * doy + 2) \div 153
      d == doy - (153 * mp + 2) \div 5 + 1
      m == IF mp < 10 THEN mp + 3 ELSE mp - 9
      y == yoe + era * 400 + (IF m <= 2 THEN 1 ELSE 0)
  IN y * 10000 + m * 100 + d

\* formatShortTime: t.UTC().Format("20060102"), the digits as a number.
FormatShortTime(t) == CivilDate(t \div 86400)

\* formatTime: t.UTC().Format("20060102T150405Z"), date digits and clock digits.
FormatTime(t) ==
  LET s == t % 86400
  IN [date |-> FormatShortTime(t),
      clock |-> (s \div 3600) * 10000 + ((s % 3600) \div 60) * 100 + (s % 60)]

\* ----------------------------------------------------------------- hashes
\* SHA-256 and HMAC-SHA256 are collision free on the values of the model:
\* a digest is the term it was computed from.
SHA256(x) == [sha256 |-> x]
HMAC(key, data) == [hmacKey |-> key, hmacData |-> data]
\* The signer's constant emptyStringSHA256 is the digest of no bytes.
EmptyStringSHA256 == SHA256("")

\* ------------------------------------------------- bytes, SHA-256, HMAC
\* The bytes of a Go string of printable ASCII characters (no backquote).
AsciiLow ==
  " !\"#$%&'()*+,-./0123456789:;<=>?@ABCDEFGHIJKLMNOPQRSTUVWXYZ[\\]^_"
AsciiHigh == "abcdefghijklmnopqrstuvwxyz{|}~"

\* Characters 32..95 and 97..126 by their code.
ByteOf ==
  [c \in {SubSeq(AsciiLow, i, i) : i \in 1..Len(AsciiLow)}
           \cup {SubSeq(AsciiHigh, i, i) : i \in 1..Len(AsciiHigh)} |->
     IF \E i \in 1..Len(AsciiLow) : SubSeq(AsciiLow, i, i) = c
     THEN 31 + CHOOSE i \in 1..Len(AsciiLow) : SubSeq(AsciiLow, i, i) = c
     ELSE 96 + CHOOSE i \in 1..Len(AsciiHigh) : SubSeq(AsciiHigh, i, i) = c]

Bytes(s) == [i \in 1..Len(s) |-> ByteOf[SubSeq(s, i, i)]]

\* strconv / fmt: n as w decimal digits, zero padded.
Digits(n, w) == [i \in 1..w |-> 48 + ((n \div 10^(w - i)) % 10)]

\* hex.EncodeToString: lower-case hexadecimal.
HexDigit(n) == IF n < 10 THEN 48 + n ELSE 87 + n
HexEncode(bs) ==
  [i \in 1..2 * Len(bs) |->
     IF i % 2 = 1 THEN HexDigit(bs[(i + 1) \div 2] \div 16)
     ELSE HexDigit((bs[i \div 2]) % 16)]

\* strings.Join of byte strings.
RECURSIVE Join(_, _)
Join(parts, sep) ==
  IF parts = <<>> THEN <<>>
  ELSE IF Len(parts) = 1 THEN parts[1]
  ELSE parts[1] \o sep \o Join(Tail(parts), sep)

\* Bitwise operations, four bits at a time: the tables give x ^ y ^ z,
\* (x & y) ^ (~x & z) and (x & y) ^ (x & z) ^ (y & z) on 4-bit numbers.
Bit(n, i) == (n \div 2^i) % 2
Xor4 ==
  [x \in 0..15, y \in 0..15, z \in 0..15 |->
     LET b(i) == (Bit(x, i) + Bit(y, i) + Bit(z, i)) % 2
     IN b(0) + (2 * b(1)) + (4 * b(2)) + (8 * b(3))]
Ch4 ==
  [x \in 0..15, y \in 0..15, z \in 0..15 |->
     LET b(i) == (Bit(x, i) * Bit(y, i)) + ((1 - Bit(x, i)) * Bit(z, i))
     IN b(0) + (2 * b(1)) + (4 * b(2)) + (8 * b(3))]
Maj4 ==
  [x \in 0..15, y \in 0..15, z \in 0..15 |->
     LET b(i) == (Bit(x, i) + Bit(y, i) + Bit(z, i)) \div 2
     IN b(0) + (2 * b(1)) + (4 * b(2)) + (8 * b(3))]

\* A 4-bit table applied to the four nibbles of 16-bit numbers.
Nibbles(T, x, y, z) ==
  T[x % 16, y % 16, z % 16]
    + (16 * T[(x \div 16) % 16, (y \div 16) % 16, (z \div 16) % 16])
    + (256 * T[(x \div 256) % 16, (y \div 256) % 16, (z \div 256) % 16])
    + (4096 * T[x \div 4096, y \div 4096, z \div 4096])

Xor8(a, b) == Nibbles(Xor4, a, b, 0)

\* A uint32 is <<high 16 bits, low 16 bits>>.
WXor3(a, b, c) == <<Nibbles(Xor4, a[1], b[1], c[1]), Nibbles(Xor4, a[2], b[2], c[2])>>
WAdd(a, b) ==
  <<(a[1] + b[1] + ((a[2] + b[2]) \div 65536)) % 65536, (a[2] + b[2]) % 65536>>
WAdd4(a, b, c, d) ==
  <<(a[1] + b[1] + c[1] + d[1] + ((a[2] + b[2] + c[2] + d[2]) \div 65536)) % 65536,
    (a[2] + b[2] + c[2] + d[2]) % 65536>>
WAdd5(a, b, c, d, e) ==
  <<(a[1] + b[1] + c[1] + d[1] + e[1]
       + ((a[2] + b[2] + c[2] + d[2] + e[2]) \div 65536)) % 65536,
    (a[2] + b[2] + c[2] + d[2] + e[2]) % 65536>>

\* Rotate right by n, 0 < n < 32.
RotR(w, n) ==
  IF n = 16 THEN <<w[2], w[1]>>
  ELSE IF n < 16
  THEN <<(w[1] \div 2^n) + ((w[2] % 2^n) * 2^(16 - n)),
         (w[2] \div 2^n) + ((w[1] % 2^n) * 2^(16 - n))>>
  ELSE <<(w[2] \div 2^(n - 16)) + ((w[1] % 2^(n - 16)) * 2^(32 - n)),
         (w[1] \div 2^(n - 16)) + ((w[2] % 2^(n - 16)) * 2^(32 - n))>>
\* Shift right by n, 0 < n < 16.
ShR(w, n) == <<w[1] \div 2^n, (w[2] \div 2^n) + ((w[1] % 2^n) * 2^(16 - n))>>

\* crypto/sha256 (FIPS 180-4).
Sha256K ==
  << <<17034, 12184>>, <<28983, 17553>>, <<46528, 64463>>, <<59829, 56229>>,
     <<14678, 49755>>, <<23025, 4593>>, <<37439, 33444>>, <<43804, 24277>>,
     <<55303, 43672>>, <<4739, 23297>>, <<9265, 34238>>, <<21772, 32195>>,
     <<29374, 23924>>, <<32990, 45566>>, <<39900, 1703>>, <<49563, 61812>>,
     <<58523, 27073>>, <<61374, 18310>>, <<4033, 40390>>, <<9228, 41420>>,
     <<11753, 11375>>, <<19060, 33962>>, <<23728, 43484>>, <<30457, 35034>>,
     <<38974, 20818>>, <<43057, 50797>>, <<45059, 10184>>, <<48985, 32711>>,
     <<50912, 3059>>, <<54695, 37191>>, <<1738, 25425>>, <<5161, 10599>>,
     <<10167, 2693>>, <<11803, 8504>>, <<19756, 28156>>, <<21304, 3347>>,
     <<25866, 29524>>, <<30314, 2747>>, <<33218, 51502>>, <<37490, 11397>>,
     <<41663, 59553>>, <<43034, 26187>>, <<49739, 35696>>, <<51052, 20899>>,
     <<53650, 59417>>, <<54937, 1572>>, <<62478, 13701>>, <<4202, 41072>>,
     <<6564, 49430>>, <<7735, 27656>>, <<10056, 30540>>, <<13488, 48309>>,
     <<14620, 3251>>, <<20184, 43594>>, <<23452, 51791>>, <<26670, 28659>>,
     <<29839, 33518>>, <<30885, 25455>>, <<33992, 30740>>, <<36039, 520>>,
     <<37054, 65530>>, <<42064, 27883>>, <<48889, 41975>>, <<50801, 30962>> >>

Sha256Init ==
  << <<27145, 58983>>, <<47975, 44677>>, <<15470, 62322>>, <<42319, 62778>>,
     <<20750, 21119>>, <<39685, 26764>>, <<8067, 55723>>, <<23520, 52505>> >>

Ch(x, y, z) == <<Nibbles(Ch4, x[1], y[1], z[1]), Nibbles(Ch4, x[2], y[2], z[2])>>
Maj(x, y, z) == <<Nibbles(Maj4, x[1], y[1], z[1]), Nibbles(Maj4, x[2], y[2], z[2])>>
BigSigma0(x) == WXor3(RotR(x, 2), RotR(x, 13), RotR(x, 22))
BigSigma1(x) == WXor3(RotR(x, 6), RotR(x, 11), RotR(x, 25))
SmallSigma0(x) == WXor3(RotR(x, 7), RotR(x, 18), ShR(x, 3))
SmallSigma1(x) == WXor3(RotR(x, 17), RotR(x, 19), ShR(x, 10))

\* The message, the 0x80 byte, zero bytes up to 56 mod 64 and the bit length.
Sha256Pad(m) ==
  LET n == Len(m)
      zeros == (119 - (n % 64)) % 64
      bits == 8 * n
  IN m \o <<128>> \o [i \in 1..zeros |-> 0]
       \o <<0, 0, 0, 0, (bits \div 16777216) % 256, (bits \div 65536) % 256,
            (bits \div 256) % 256, bits % 256>>

\* The message schedule: words lo .. lo + n - 1 appended to the words before
\* them (n a power of 4).
RECURSIVE Sha256Schedule(_, _, _)
Sha256Schedule(w, lo, n) ==
  IF n = 1
  THEN Append(w, WAdd4(SmallSigma1(w[lo - 2]), w[lo - 7],
                       SmallSigma0(w[lo - 15]), w[lo - 16]))
  ELSE CHOOSE r \in
         {Sha256Schedule(w3, lo + 3 * (n \div 4), n \div 4) : w3 \in
         {Sha256Schedule(w2, lo + 2 * (n \div 4), n \div 4) : w2 \in
         {Sha256Schedule(w1, lo + (n \div 4), n \div 4) : w1 \in
         {Sha256Schedule(w, lo, n \div 4)}}}} : TRUE

\* One round of the compression function on the working variables a..h.
Sha256Round(s, w, i) ==
  CHOOSE r \in
    { <<WAdd(t1, t2), s[1], s[2], s[3], WAdd(s[4], t1), s[5], s[6], s[7]>> :
        t1 \in {WAdd5(s[8], BigSigma1(s[5]), Ch(s[5], s[6], s[7]), Sha256K[i], w[i])},
        t2 \in {WAdd(BigSigma0(s[1]), Maj(s[1], s[2], s[3]))} } : TRUE

\* Rounds lo .. lo + n - 1 in order (n a power of 4).
RECURSIVE Sha256Rounds(_, _, _, _)
Sha256Rounds(s, w, lo, n) ==
  IF n = 1 THEN Sha256Round(s, w, lo)
  ELSE CHOOSE r \in
         {Sha256Rounds(s3, w, lo + 3 * (n \div 4), n \div 4) : s3 \in
         {Sha256Rounds(s2, w, lo + 2 * (n \div 4), n \div 4) : s2 \in
         {Sha256Rounds(s1, w, lo + (n \div 4), n \div 4) : s1 \in
         {Sha256Rounds(s, w, lo, n \div 4)}}}} : TRUE

\* The 16 words of block j (from 0) of the padded message.
Sha256Words(m, j) ==
  [i \in 1..16 |->
     <<(m[64 * j + 4 * i - 3] * 256) + m[64 * j + 4 * i - 2],
       (m[64 * j + 4 * i - 1] * 256) + m[64 * j + 4 * i]>>]

\* The schedule of a block is its 16 words and 48 more: three runs of 16.
Sha256Compress(h, m, j) ==
  CHOOSE r \in
    {[i \in 1..8 |-> WAdd(h[i], s[i])] : s \in
    {Sha256Rounds(h, w, 1, 64) : w \in
    {Sha256Schedule(w3, 49, 16) : w3 \in
    {Sha256Schedule(w2, 33, 16) : w2 \in
    {Sha256Schedule(Sha256Words(m, j), 17, 16)}}}}} : TRUE

RECURSIVE Sha256Blocks(_, _, _)
Sha256Blocks(h, m, j) ==
  IF 64 * j >= Len(m) THEN h
  ELSE CHOOSE r \in {Sha256Blocks(x, m, j + 1) : x \in {Sha256Compress(h, m, j)}} : TRUE

\* sha256.Sum256(data): the 32 bytes of the digest.
Sum256(data) ==
  LET h == Sha256Blocks(Sha256Init, Sha256Pad(data), 0)
  IN [i \in 1..32 |->
        LET half == h[(i + 3) \div 4][IF (i - 1) % 4 < 2 THEN 1 ELSE 2]
        IN IF i % 2 = 1 THEN half \div 256 ELSE half % 256]

\* The signer's hashSHA256 and hmacSHA256 (crypto/hmac with sha256.New).
hashSHA256(data) == Sum256(data)

hmacSHA256(key, data) ==
  LET k0 == IF Len(key) > 64 THEN Sum256(key) ELSE key
      k == k0 \o [i \in 1..64 - Len(k0) |-> 0]
      ipad == [i \in 1..64 |-> Xor8(k[i], 54)]
      opad == [i \in 1..64 |-> Xor8(k[i], 92)]
  IN CHOOSE r \in {Sum256(opad \o inner) : inner \in {Sum256(ipad \o data)}} : TRUE

\* ---------------------------------------------------------------- url.URL
\* A URL is [scheme, host, path, rawQuery]; rawQuery is the sequence of
\* <<key, value>> pairs in the order they are written after the "?".
QueryKeys(q) == {q[i][1] : i \in DOMAIN q}

RECURSIVE ValuesOf(_, _)
ValuesOf(q, k) ==
  IF q = <<>> THEN <<>>
  ELSE (IF Head(q)[1] = k THEN <<Head(q)[2]>> ELSE <<>>) \o ValuesOf(Tail(q), k)

\* URL.Query(): url.Values, a map from key to its values in written order.
URLQuery(q) == [k \in QueryKeys(q) |-> ValuesOf(q, k)]

RECURSIVE EncodeKeys(_, _)
EncodeKeys(keys, vals) ==
  IF keys = <<>> THEN <<>>
  ELSE LET k == Head(keys)
       IN [i \in 1..Len(vals[k]) |-> <<k, vals[k][i]>>] \o EncodeKeys(Tail(keys), vals)

\* url.Values.Encode(): the pairs, sorted by key.
ValuesEncode(vals) ==
  EncodeKeys(SelectSeq(StrOrder, LAMBDA s : s \in DOMAIN vals), vals)

\* rest.EscapePath(getURIPath(u), false): the percent-encoded path.
EscapePath(path) == [escaped |-> path]

\* ------------------------------------------------- SDK signer (v4.Signer)
\* ignoredHeaders: never part of the signature.
IgnoredHeaders == {"Authorization", "User-Agent", "X-Amzn-Trace-Id"}

\* Services for which buildBodyDigest also sets X-Amz-Content-Sha256.
Sha256HeaderServices == {"s3", "s3-object-lambda", "glacier"}

Reverse(xs) == [i \in 1..Len(xs) |-> xs[Len(xs) + 1 - i]]

\* "for k, v := range header": Go leaves the iteration order of a map open;
\* ord picks one of two opposite orders, which covers both orders of any two keys.
MapRange(h, ord) ==
  SelectSeq(IF ord THEN RawKeys ELSE Reverse(RawKeys), LAMBDA k : k \in DOMAIN h)

\* The loop of buildCanonicalHeaders: acc.headers starts as <<"host">>; every
\* key that is not ignored adds its lower-cased name once, and its values.
RECURSIVE CollectHeaders(_, _, _)
CollectHeaders(keys, h, acc) ==
  IF keys = <<>> THEN acc
  ELSE LET k == Head(keys)
           lower == ToLower(k)
       IN IF k \in IgnoredHeaders THEN CollectHeaders(Tail(keys), h, acc)
          ELSE IF lower \in DOMAIN acc.vals
          THEN CollectHeaders(Tail(keys), h,
                 [acc EXCEPT !.vals = Put(acc.vals, lower, acc.vals[lower] \o h[k])])
          ELSE CollectHeaders(Tail(keys), h,
                 [headers |-> Append(acc.headers, lower),
                  vals |-> Put(acc.vals, lower, h[k])])

\* buildCanonicalHeaders: the signed-headers list and the canonical header lines.
BuildCanonicalHeaders(host, h, ord) ==
  LET c == CollectHeaders(MapRange(h, ord), h,
                          [headers |-> <<"host">>, vals |-> EmptyMap])
      headers == SortStrings(c.headers)
  IN [signedHeaders |-> headers,
      canonicalHeaders |->
        [i \in 1..Len(headers) |->
           IF headers[i] = "host" THEN <<"host", <<Str(host)>> >>
           ELSE <<headers[i], c.vals[headers[i]]>>]]

\* isRequestSigned (not a presign): the request already has an Authorization.
IsRequestSigned(r) == HeaderGet(r.header, "Authorization") # Str("")

\* The time the signer signs with: signWithBody replaces the caller's signTime
\* by currentTimeFn() (time.Now) when the request is already signed.
SigningTime(r, signTime, now) == IF IsRequestSigned(r) THEN now ELSE signTime

\* buildBodyDigest: the payload hash, and whether it is also set as a header.
BodyDigest(h, body, service) ==
  LET given == HeaderGet(h, "X-Amz-Content-Sha256")
  IN IF given # Str("") THEN [hash |-> given, setHeader |-> FALSE]
     ELSE [hash |-> IF body = Nil THEN EmptyStringSHA256 ELSE SHA256(body.data),
           setHeader |-> service \in Sha256HeaderServices]

\* buildSignature: the HMAC chain over the string to sign.
Signature(secret, date, region, service, stringToSign) ==
  LET kDate == HMAC(<<"AWS4", secret>>, date)
      kRegion == HMAC(kDate, region)
      kService == HMAC(kRegion, service)
      kSigning == HMAC(kService, "aws4_request")
  IN HMAC(kSigning, stringToSign)

\* The request body the signer leaves on the request (not a presign,
\* DisableRequestBodyOverwrite unset): the reader it hashed, rewound.
SignedBodyKeepOld(r, body) == r.body

SignedBody(r, body) == IF body = Nil THEN Nil ELSE [body EXCEPT !.drained = FALSE]

\* assignAmzQueryValues (not a presign): the session token, when there is one,
\* is set as a header before the headers are signed.
AssignAmzQueryValuesNever(h, creds) == h

AssignAmzQueryValues(h, creds) ==
  IF creds.token # ""
  THEN HeaderSet(h, "X-Amz-Security-Token", Str(creds.token))
  ELSE h

\* v4.Signer.Sign(r, body, service, region, signTime) with static credentials
\* creds: the request after the call and the error returned.
Sign(r, body, service, region, signTime, creds, now, ord) ==
  IF creds.key = "" \/ creds.secret = ""
  THEN [req |-> r, err |-> Err("static credentials are empty")]
  ELSE
    LET time == SigningTime(r, signTime, now)
        h1 == AssignAmzQueryValues(r.header, creds)
        \* buildTime
        h2 == HeaderSet(h1, "X-Amz-Date", FormatTime(time))
        \* buildCredentialString
        scope == [date |-> FormatShortTime(time), region |-> region,
                  service |-> service, terminator |-> "aws4_request"]
        \* buildBodyDigest
        digest == BodyDigest(h2, body, service)
        h3 == IF digest.setHeader
              THEN HeaderSet(h2, "X-Amz-Content-Sha256", digest.hash)
              ELSE h2
        canon == BuildCanonicalHeaders(r.host, h3, ord)
        \* buildCanonicalString, which also rewrites URL.RawQuery
        rawQuery == ValuesEncode([k \in DOMAIN URLQuery(r.url.rawQuery) |->
                                    SortStrings(URLQuery(r.url.rawQuery)[k])])
        canonicalString ==
          [method |-> r.method, uri |-> EscapePath(r.url.path),
           query |-> rawQuery, headers |-> canon.canonicalHeaders,
           signedHeaders |-> canon.signedHeaders, bodyDigest |-> digest.hash]
        \* buildStringToSign
        stringToSign ==
          [algorithm |-> "AWS4-HMAC-SHA256", time |-> FormatTime(time),
           scope |-> scope, hash |-> SHA256(canonicalString)]
        authorization ==
          [algorithm |-> "AWS4-HMAC-SHA256",
           credential |-> [accessKey |-> creds.key, scope |-> scope],
           signedHeaders |-> canon.signedHeaders,
           signature |-> Signature(creds.secret, scope.date, region, service,
                                   stringToSign)]
    IN [req |-> [r EXCEPT !.header = HeaderSet(h3, "Authorization", authorization),
                          !.url.rawQuery = rawQuery,
                          !.body = SignedBody(r, body)],
        err |-> Nil]

\* ------------------------------------------- the strings the signer signs
\* The digests above stand for the bytes computed here: the canonical request,
\* the string to sign and the Authorization header as the signer writes them.

\* rest.EscapePath(path, false): every byte other than A-Z a-z 0-9 - _ . ~ /
\* becomes %XX with upper-case hexadecimal digits.
NoEscape(b) ==
  \/ (b >= 65 /\ b <= 90) \/ (b >= 97 /\ b <= 122) \/ (b >= 48 /\ b <= 57)
  \/ b \in {45, 95, 46, 126, 47}

UpperHexDigit(n) == IF n < 10 THEN 48 + n ELSE 55 + n

EscapePathBytesUnescaped(bs) == bs

EscapePathBytes(bs) ==
  Join([i \in 1..Len(bs) |->
          IF NoEscape(bs[i]) THEN <<bs[i]>>
          ELSE <<37, UpperHexDigit(bs[i] \div 16), UpperHexDigit(bs[i] % 16)>>],
       <<>>)

\* formatTime as text: 20060102T150405Z.
TimeString(t) == Digits(t.date, 8) \o Bytes("T") \o Digits(t.clock, 6) \o Bytes("Z")

\* A header value as text: plain text, a timestamp, or the hex digest of a body.
HeaderValueBytes(v) ==
  IF "str" \in DOMAIN v THEN Bytes(v.str)
  ELSE IF "date" \in DOMAIN v THEN TimeString(v)
  ELSE HexEncode(hashSHA256(Bytes(v.sha256)))

\* buildCredentialString: date/region/service/aws4_request.
ScopeString(scope) ==
  Join(<<Digits(scope.date, 8), Bytes(scope.region), Bytes(scope.service),
         Bytes(scope.terminator)>>, Bytes("/"))

SignedHeadersString(names) ==
  Join([i \in 1..Len(names) |-> Bytes(names[i])], Bytes(";"))

QueryString(q) ==
  Join([i \in 1..Len(q) |-> Bytes(q[i][1]) \o Bytes("=") \o Bytes(q[i][2])],
       Bytes("&"))

CanonicalHeadersString(hs) ==
  Join([i \in 1..Len(hs) |->
          Bytes(hs[i][1]) \o Bytes(":")
            \o Join([j \in 1..Len(hs[i][2]) |-> HeaderValueBytes(hs[i][2][j])],
                    Bytes(","))],
       <<10>>)

\* buildCanonicalString: method, URI, query, headers and an empty line, signed
\* header names, body digest, joined by "\n".
CanonicalString(c) ==
  Join(<<Bytes(c.method), EscapePathBytes(Bytes(c.uri.escaped)),
         QueryString(c.query), CanonicalHeadersString(c.headers) \o <<10>>,
         SignedHeadersString(c.signedHeaders), HeaderValueBytes(c.bodyDigest)>>,
       <<10>>)

\* buildStringToSign
StringToSign(sts) ==
  CHOOSE r \in
    {Join(<<Bytes(sts.algorithm), TimeString(sts.time), ScopeString(sts.scope),
            digest>>, <<10>>) : digest \in
    {HexEncode(hashSHA256(canonicalString)) : canonicalString \in
    {CanonicalString(sts.hash.sha256)}}} : TRUE

\* buildSignature / deriveSigningKey: the HMAC chain of Signature, in hex.
SignatureHex(sig) ==
  LET kSigning == sig.hmacKey
      kService == kSigning.hmacKey
      kRegion == kService.hmacKey
      kDate == kRegion.hmacKey
  IN CHOOSE r \in
       {HexEncode(hmacSHA256(signingKey, stringToSign)) :
          stringToSign \in {StringToSign(sig.hmacData)},
          signingKey \in
            {hmacSHA256(serviceKey, Bytes(kSigning.hmacData)) : serviceKey \in
            {hmacSHA256(regionKey, Bytes(kService.hmacData)) : regionKey \in
            {hmacSHA256(dateKey, Bytes(kRegion.hmacData)) : dateKey \in
            {hmacSHA256(Bytes(kDate.hmacKey[1]) \o Bytes(kDate.hmacKey[2]),
                        Digits(kDate.hmacData, 8))}}}}} : TRUE

\* The Authorization header value as the signer writes it.
AuthorizationString(a) ==
  Bytes(a.algorithm) \o Bytes(" Credential=") \o Bytes(a.credential.accessKey)
    \o Bytes("/") \o ScopeString(a.credential.scope)
    \o Bytes(", SignedHeaders=") \o SignedHeadersString(a.signedHeaders)
    \o Bytes(", Signature=") \o SignatureHex(a.signature)

\* ------------------------------------------------------- requests, bodies
\* An io.ReadCloser over data: drained once read to the end, fails when its
\* Read returns an error.
BytesBody(data) == [data |-> data, drained |-> FALSE, closed |-> FALSE, fails |-> FALSE]
FailingBody == [data |-> "{partial", drained |-> FALSE, closed |-> FALSE, fails |-> TRUE]

\* The bytes a send of the request would still read from its body.
Remaining(body) == IF body = Nil \/ body.drained THEN "" ELSE body.data

ReadAllSwallowError(body) == [data |-> Remaining(body), err |-> Nil]

\* io.ReadAll(body): the bytes left in the body, or the reader's error.
ReadAll(body) ==
  IF body.fails THEN [data |-> "", err |-> Err("read error")]
  ELSE [data |-> Remaining(body), err |-> Nil]

\* http.NewRequest(method, url, body) on a URL that parsed.
NewRequest(method, url, body) ==
  [method |-> method, url |-> url, host |-> url.host, header |-> EmptyMap,
   body |-> body]

SearchURL(rawQuery) ==
  [scheme |-> "https", host |-> "subdomain.us-east-1.es.amazonaws.com",
   path |-> "/log-*/_search", rawQuery |-> rawQuery]
GiftURL ==
  [scheme |-> "https", host |-> "agcod-v2-fe-gamma.amazon.com",
   path |-> "/CreateGiftCard", rawQuery |-> <<>>]

PostBody == "{\"creationRequestId\":\"\",\"partnerId\":\"Amazon\"}"

\* The headers a caller of SetSignatureV4 sets before the call.
PresetTest ==
  HeaderSet(HeaderSet(EmptyMap, "x-amz-target", Str("CreateGiftCard")),
            "accept", Str("application/json"))
\* ... with one more key written to the map directly, in lower case.
PresetLowerCase == Put(PresetTest, "x-amz-target", <<Str("lower")>>)
PresetUserAgent == HeaderSet(EmptyMap, "User-Agent", Str("go-test"))
PresetHost == HeaderSet(EmptyMap, "Host", Str("agcod-v2-fe-gamma.amazon.com"))

WithHeader(r, h) == [r EXCEPT !.header = h]

\* The requests callers hand to SetSignatureV4 directly.
Requests ==
  { NewRequest("GET", SearchURL(<<>>), Nil),
    NewRequest("GET", SearchURL(<< <<"b", "2">>, <<"a", "1">> >>), Nil),
    WithHeader(NewRequest("POST", GiftURL, BytesBody(PostBody)), PresetTest),
    WithHeader(NewRequest("POST", GiftURL, BytesBody(PostBody)), PresetLowerCase),
    WithHeader(NewRequest("POST", GiftURL, BytesBody(PostBody)), PresetUserAgent),
    WithHeader(NewRequest("POST", GiftURL, BytesBody(PostBody)), PresetHost),
    NewRequest("POST", GiftURL, BytesBody("")),
    WithHeader(NewRequest("POST", GiftURL, FailingBody), PresetTest) }

SignTimes == {0, 1467963107}
\* Readings of time.Now().
Clock == {1467963107, 1700000000}

\* ---------------------------------------------------------------- Service
Keys == {"AKID", ""}
Secrets == {"SECRET"}
BaseURLs == {"https://agcod-v2-fe-gamma.amazon.com", "://agcod"}
Tokens == {"SESSION", ""}
Regions == {"us-east-1", "us-west-2"}
ServiceNames == {"AGCODService", "s3"}
PartnerIDs == {"Wo0f5"}

NewService(key, secret, baseURL) ==
  [context |-> [region |-> "", token |-> "", service |-> "", partnerID |-> ""],
   accessKey |-> key, accessSecret |-> secret, baseURL |-> baseURL]

\* url.Parse of baseURL + path, Nil when it does not parse.
ParseURL(baseURL, path) ==
  IF baseURL = "https://agcod-v2-fe-gamma.amazon.com"
  THEN [scheme |-> "https", host |-> "agcod-v2-fe-gamma.amazon.com",
        path |-> path, rawQuery |-> <<>>]
  ELSE IF baseURL = ""
  THEN [scheme |-> "", host |-> "", path |-> path, rawQuery |-> <<>>]
  ELSE Nil

OpKinds == {"CreateGiftCard", "CancelGiftCard", "GetAvailableFunds"}

\* ------------------------------------------------------------------ state
VARIABLES
  svc,      \* the Service (accessKey, accessSecret, baseURL, *context)
  pc,       \* per caller: where it is in SetSignatureV4 or a gift-card operation
  kind,     \* per caller: "direct" (calls SetSignatureV4 itself) or the operation
  req,      \* per caller: its *http.Request, Nil before http.NewRequest
  loc,      \* per caller: the locals of SetSignatureV4 (signTime, creds, data, err)
  entry,    \* per caller: request, Service and signTime when SetSignatureV4 was entered
  sent,     \* per caller: the request client.Do dispatched, Nil if none
  result,   \* per caller: what the gift-card operation returned, [resp, err]
  nsigns,   \* per caller: SetSignatureV4 calls made on its request
  nsets,    \* setter calls made so far
  overlap   \* per caller: another SetSignatureV4 call ran during its call

\* The Async* functions of packages s3, sqs, cloudsearch and ses.
VARIABLES
  calls,    \* per Async* call: operation, options, channel, caller and goroutine position
  chans     \* per channel that make(chan) created: whether close() was called on it

\* Package rds.
VARIABLES
  rds       \* one call into package rds: options, position, locals

\* Package elasticache: keys and sets.
VARIABLES
  store,    \* the Redis server: per key its value, type and time to live
  cret,     \* the elasticache call that returned last, with what it returned
  lastSet,  \* per key: the most recent Set call on it (type, value, ttl, error)
  deleted   \* per key: Delete returned nil and no Set was called on it since

\* Package elasticache: Publish and Subscribe on one channel.
VARIABLES
  sub,        \* the subscription: Subscribe's outcome, the connection, the server's view
  wire,       \* what the server has pushed on the connection and Receive has not read
  pubsubChan, \* the buffered Go channel between the two goroutines of Subscribe
  gor,        \* where the two goroutines are and what they hold
  published,  \* the messages published since Subscribe returned, in order
  handled     \* the messages passed to the handler, in order

\* Packages s3 and sqs: one synchronous call.
VARIABLES
  upload,   \* one s3 Upload call: options, the local file, position, locals
  receive   \* one sqs ReceiveMessage call: options, position, what was sent

\* The package-level client of a wrapper package (sync.Once and instance).
VARIABLES
  once,     \* the package's sync.Once: done, and the goroutine running f
  instance, \* the package's instance variable
  services, \* the Service objects of the process: region, credentials, endpoints
  gos       \* per goroutine: where it is in a wrapper call and what it holds

agcodVars == <<svc, pc, kind, req, loc, entry, sent, result, nsigns, nsets, overlap>>
asyncVars == <<calls, chans>>
rdsVars == <<rds>>
cacheVars == <<store, cret, lastSet, deleted>>
pubsubVars == <<sub, wire, pubsubChan, gor, published, handled>>
wrapperVars == <<upload, receive>>
clientVars == <<once, instance, services, gos>>

vars == <<agcodVars, asyncVars, rdsVars, cacheVars, pubsubVars, wrapperVars,
          clientVars>>

\* What the actions of one package leave alone: the state of the others.
notAgcod == <<asyncVars, rdsVars, cacheVars, pubsubVars, wrapperVars, clientVars>>
notAsync == <<agcodVars, rdsVars, cacheVars, pubsubVars, wrapperVars, clientVars>>
notRds == <<agcodVars, asyncVars, cacheVars, pubsubVars, wrapperVars, clientVars>>
notCache == <<agcodVars, asyncVars, rdsVars, pubsubVars, wrapperVars, clientVars>>
notPubSub == <<agcodVars, asyncVars, rdsVars, cacheVars, wrapperVars, clientVars>>
notWrapper == <<agcodVars, asyncVars, rdsVars, cacheVars, pubsubVars, clientVars>>
notClient == <<agcodVars, asyncVars, rdsVars, cacheVars, pubsubVars, wrapperVars>>

\* No Async* call has been made.
AsyncIdle ==
  /\ calls = <<>>
  /\ chans = <<>>

\* No call into package rds.
RdsIdle == rds = Nil

\* No call into package elasticache.
CacheIdle ==
  /\ store = Nil
  /\ cret = Nil
  /\ lastSet = Nil
  /\ deleted = Nil

\* No call into s3 Upload or sqs ReceiveMessage.
WrapperIdle ==
  /\ upload = Nil
  /\ receive = Nil

\* No Service of a wrapper package exists.
ClientIdle ==
  /\ once = Nil
  /\ instance = Nil
  /\ services = Nil
  /\ gos = Nil

\* Subscribe has not been called.
PubSubIdle ==
  /\ sub = [state |-> "none", inflight |-> FALSE, server |-> FALSE,
            cancelled |-> FALSE, unsubscribing |-> FALSE, unsubscribes |-> 0,
            closes |-> 0]
  /\ wire = <<>>
  /\ pubsubChan = Nil
  /\ gor = [subscriber |-> "none", publisher |-> "none", v |-> Nil]
  /\ published = <<>>
  /\ handled = <<>>

AgcodOnly ==
  AsyncIdle /\ RdsIdle /\ CacheIdle /\ PubSubIdle /\ WrapperIdle /\ ClientIdle

NoLocals == [signTime |-> 0, creds |-> Nil, data |-> "", err |-> Nil]

Init ==
  /\ svc \in {NewService(k, s, u) : k \in Keys, s \in Secrets, u \in BaseURLs}
  /\ pc = [p \in Procs |-> "idle"]
  /\ kind = [p \in Procs |-> "none"]
  /\ req = [p \in Procs |-> Nil]
  /\ loc = [p \in Procs |-> NoLocals]
  /\ entry = [p \in Procs |-> Nil]
  /\ sent = [p \in Procs |-> Nil]
  /\ result = [p \in Procs |-> Nil]
  /\ nsigns = [p \in Procs |-> 0]
  /\ nsets = 0
  /\ overlap = [p \in Procs |-> FALSE]
  /\ AgcodOnly

\* No call into package agcod.
AgcodIdle ==
  /\ svc = NewService("", "", "")
  /\ pc = [p \in Procs |-> "idle"]
  /\ kind = [p \in Procs |-> "none"]
  /\ req = [p \in Procs |-> Nil]
  /\ loc = [p \in Procs |-> NoLocals]
  /\ entry = [p \in Procs |-> Nil]
  /\ sent = [p \in Procs |-> Nil]
  /\ result = [p \in Procs |-> Nil]
  /\ nsigns = [p \in Procs |-> 0]
  /\ nsets = 0
  /\ overlap = [p \in Procs |-> FALSE]

AsyncOnly ==
  AgcodIdle /\ RdsIdle /\ CacheIdle /\ PubSubIdle /\ WrapperIdle /\ ClientIdle
RdsOnly ==
  AgcodIdle /\ AsyncIdle /\ CacheIdle /\ PubSubIdle /\ WrapperIdle /\ ClientIdle
CacheOnly ==
  AgcodIdle /\ AsyncIdle /\ RdsIdle /\ PubSubIdle /\ WrapperIdle /\ ClientIdle
PubSubOnly ==
  AgcodIdle /\ AsyncIdle /\ RdsIdle /\ CacheIdle /\ WrapperIdle /\ ClientIdle
WrapperOnly ==
  AgcodIdle /\ AsyncIdle /\ RdsIdle /\ CacheIdle /\ PubSubIdle /\ ClientIdle
ClientOnly ==
  AgcodIdle /\ AsyncIdle /\ RdsIdle /\ CacheIdle /\ PubSubIdle /\ WrapperIdle

InCall(p) == pc[p] \in {"L74", "L77", "L83", "L88"}

\* --------------------------------------------------------------- setters
\* Each setter is s.context.check() followed by one unsynchronised store to a
\* field of s.context.  The calls of SetSignatureV4 that are between their
\* entry and their return when the store lands have the new context added to
\* the contexts the Service has held during the call.
Witnessed(e, context) ==
  [q \in Procs |->
     IF InCall(q) THEN [e[q] EXCEPT !.contexts = @ \cup {context}] ELSE e[q]]

SetRegion(region) ==
  /\ nsets < MaxSets
  /\ svc' = [svc EXCEPT !.context.region = region]
  /\ nsets' = nsets + 1
  /\ entry' = Witnessed(entry, [svc.context EXCEPT !.region = region])
  /\ UNCHANGED <<pc, kind, req, loc, sent, result, nsigns, overlap>>
  /\ UNCHANGED notAgcod

SetToken(token) ==
  /\ nsets < MaxSets
  /\ svc' = [svc EXCEPT !.context.token = token]
  /\ nsets' = nsets + 1
  /\ entry' = Witnessed(entry, [svc.context EXCEPT !.token = token])
  /\ UNCHANGED <<pc, kind, req, loc, sent, result, nsigns, overlap>>
  /\ UNCHANGED notAgcod

SetService(service) ==
  /\ nsets < MaxSets
  /\ svc' = [svc EXCEPT !.context.service = service]
  /\ nsets' = nsets + 1
  /\ entry' = Witnessed(entry, [svc.context EXCEPT !.service = service])
  /\ UNCHANGED <<pc, kind, req, loc, sent, result, nsigns, overlap>>
  /\ UNCHANGED notAgcod

SetPartnerID(partnerID) ==
  /\ nsets < MaxSets
  /\ svc' = [svc EXCEPT !.context.partnerID = partnerID]
  /\ nsets' = nsets + 1
  /\ entry' = Witnessed(entry, [svc.context EXCEPT !.partnerID = partnerID])
  /\ UNCHANGED <<pc, kind, req, loc, sent, result, nsigns, overlap>>
  /\ UNCHANGED notAgcod

\* -------------------------------------------------------- SetSignatureV4
\* A caller builds a request (http.NewRequest, Header.Set) to sign it itself.
CallerNewRequest(p, rs) ==
  /\ pc[p] = "idle"
  /\ \E r \in rs : req' = [req EXCEPT ![p] = r]
  /\ pc' = [pc EXCEPT ![p] = "ready"]
  /\ kind' = [kind EXCEPT ![p] = "direct"]
  /\ UNCHANGED <<svc, loc, entry, sent, result, nsigns, nsets, overlap>>
  /\ UNCHANGED notAgcod

\* Entering s.SetSignatureV4(req, signTime).
Enter(p, r, signTime) ==
  /\ overlap' = [q \in Procs |->
                   IF \E o \in Procs \ {p} : InCall(o)
                   THEN (q = p \/ InCall(q) \/ overlap[q])
                   ELSE (q # p /\ overlap[q])]
  /\ loc' = [loc EXCEPT ![p] = [NoLocals EXCEPT !.signTime = signTime]]
  /\ entry' = [entry EXCEPT ![p] = [req |-> r, svc |-> svc, signTime |-> signTime,
                                    contexts |-> {svc.context}]]
  /\ nsigns' = [nsigns EXCEPT ![p] = @ + 1]
  /\ pc' = [pc EXCEPT ![p] = "L74"]

CallSetSignatureV4(p) ==
  /\ kind[p] = "direct"
  /\ pc[p] \in {"ready", "ret"}
  /\ nsigns[p] < MaxSigns
  /\ \E t \in SignTimes : Enter(p, req[p], t)
  /\ UNCHANGED <<svc, kind, req, sent, result, nsets>>
  /\ UNCHANGED notAgcod

\* line 74: credentials.NewStaticCredentials(accessKey, accessSecret, context.token)
NewStaticCredentials(p) ==
  /\ pc[p] = "L74"
  /\ loc' = [loc EXCEPT ![p].creds =
               [key |-> svc.accessKey, secret |-> svc.accessSecret,
                token |-> svc.context.token]]
  /\ pc' = [pc EXCEPT ![p] = "L77"]
  /\ UNCHANGED <<svc, kind, req, entry, sent, result, nsigns, nsets, overlap>>
  /\ UNCHANGED notAgcod

\* lines 77-82: io.ReadAll(req.Body); on a read error the deferred Close runs
\* and the error is returned.
ReadBody(p) ==
  /\ pc[p] = "L77"
  /\ IF req[p].body = Nil
     THEN /\ pc' = [pc EXCEPT ![p] = "L88"]
          /\ UNCHANGED <<req, loc>>
     ELSE IF ReadAll(req[p].body).err # Nil
     THEN /\ req' = [req EXCEPT ![p].body.closed = TRUE]
          /\ loc' = [loc EXCEPT ![p].err = ReadAll(req[p].body).err]
          /\ pc' = [pc EXCEPT ![p] = "ret"]
     ELSE /\ loc' = [loc EXCEPT ![p].data = ReadAll(req[p].body).data]
          /\ req' = [req EXCEPT ![p].body.drained = TRUE]
          /\ pc' = [pc EXCEPT ![p] = "L83"]
  /\ UNCHANGED <<svc, kind, entry, sent, result, nsigns, nsets, overlap>>
  /\ UNCHANGED notAgcod

\* "defer req.Body.Close()" closes the body the request had at line 78; the
\* request still holds that body only when the signer did not replace it.
DeferredClose(orig, r) ==
  IF r.body = orig THEN [r EXCEPT !.body.closed = TRUE] ELSE r

\* A buffer shared by all calls instead of the local data.
BodyDataShared(p) ==
  IF \E q \in Procs \ {p} : pc[q] = "L83"
  THEN loc[CHOOSE q \in Procs \ {p} : pc[q] = "L83"].data
  ELSE loc[p].data

\* line 79: data is a local of the call.
BodyData(p) == loc[p].data

\* lines 83-86: signer.Sign(req, bytes.NewReader(data), service, region, signTime)
SignWithBody(p) ==
  /\ pc[p] = "L83"
  /\ \E now \in Clock, ord \in BOOLEAN :
       LET res == Sign(req[p], BytesBody(BodyData(p)), svc.context.service,
                       svc.context.region, loc[p].signTime, loc[p].creds, now, ord)
       IN /\ req' = [req EXCEPT ![p] = DeferredClose(req[p].body, res.req)]
          /\ loc' = [loc EXCEPT ![p].err = res.err]
  /\ pc' = [pc EXCEPT ![p] = "ret"]
  /\ UNCHANGED <<svc, kind, entry, sent, result, nsigns, nsets, overlap>>
  /\ UNCHANGED notAgcod

\* lines 88-91: signer.Sign(req, nil, service, region, signTime)
SignNoBody(p) ==
  /\ pc[p] = "L88"
  /\ \E now \in Clock, ord \in BOOLEAN :
       LET res == Sign(req[p], Nil, svc.context.service, svc.context.region,
                       loc[p].signTime, loc[p].creds, now, ord)
       IN /\ req' = [req EXCEPT ![p] = res.req]
          /\ loc' = [loc EXCEPT ![p].err = res.err]
  /\ pc' = [pc EXCEPT ![p] = "ret"]
  /\ UNCHANGED <<svc, kind, entry, sent, result, nsigns, nsets, overlap>>
  /\ UNCHANGED notAgcod

\* The caller is done with its request.
Reset(p) ==
  /\ pc' = [pc EXCEPT ![p] = "idle"]
  /\ kind' = [kind EXCEPT ![p] = "none"]
  /\ req' = [req EXCEPT ![p] = Nil]
  /\ loc' = [loc EXCEPT ![p] = NoLocals]
  /\ entry' = [entry EXCEPT ![p] = Nil]
  /\ sent' = [sent EXCEPT ![p] = Nil]
  /\ result' = [result EXCEPT ![p] = Nil]
  /\ nsigns' = [nsigns EXCEPT ![p] = 0]
  /\ overlap' = [overlap EXCEPT ![p] = FALSE]

CallerDrop(p) ==
  /\ kind[p] = "direct"
  /\ pc[p] = "ret"
  /\ Reset(p)
  /\ UNCHANGED <<svc, nsets>>
  /\ UNCHANGED notAgcod

\* ------------------------------------------------- gift-card operations
\* What json.Marshal is given: a request whose amount is finite, or NaN
\* (CreateGiftCardReq.Value.Amount is a float64), which json.Marshal rejects.
Payloads == {"finite", "NaN"}

\* json.Marshal of the operation's request struct (GetAvailableFunds formats
\* its body with fmt.Sprintf and cannot fail).
Marshal(k, payload) ==
  IF k = "CreateGiftCard" /\ payload = "NaN"
  THEN [data |-> "", err |-> Err("json: unsupported value: NaN")]
  ELSE [data |-> "{\"partnerId\":\"Wo0f5\"}", err |-> Nil]

\* lines 105-108: http.NewRequest("POST", url, bytes.NewBuffer(body)) and the
\* three Header.Set calls.
OpRequest(k, url, data) ==
  WithHeader(NewRequest("POST", url, BytesBody(data)),
    HeaderSet(HeaderSet(HeaderSet(EmptyMap,
      "x-amz-target", Str(k)), "accept", Str("application/json")),
      "content-type", Str("application/json")))

\* lines 98-110 (140-152, 182-190): build the request and call SetSignatureV4.
\* http.NewRequest's error is dropped: on an unparseable URL req is nil and
\* req.Header.Set dereferences it.
StartOp(p, k) ==
  /\ pc[p] = "idle"
  /\ kind' = [kind EXCEPT ![p] = k]
  /\ \E payload \in Payloads, t \in SignTimes :
       LET m == Marshal(k, payload)
           url == ParseURL(svc.baseURL, "/" \o k)
       IN IF m.err # Nil
          THEN /\ result' = [result EXCEPT ![p] = [resp |-> Nil, err |-> m.err]]
               /\ pc' = [pc EXCEPT ![p] = "done"]
               /\ UNCHANGED <<req, loc, entry, nsigns, overlap>>
          ELSE IF url = Nil
          THEN /\ pc' = [pc EXCEPT ![p] = "panic"]
               /\ UNCHANGED <<req, loc, entry, nsigns, result, overlap>>
          ELSE /\ req' = [req EXCEPT ![p] = OpRequest(k, url, m.data)]
               /\ Enter(p, OpRequest(k, url, m.data), t)
               /\ UNCHANGED result
  /\ UNCHANGED <<svc, sent, nsets>>
  /\ UNCHANGED notAgcod

\* What the network and the server can answer to client.Do.
NetOutcomes ==
  { [do |-> Err("transport"), read |-> Nil, status |-> 0, body |-> ""],
    [do |-> Nil, read |-> Err("unexpected EOF"), status |-> 200, body |-> ""],
    [do |-> Nil, read |-> Nil, status |-> 200, body |-> "{\"status\":\"SUCCESS\"}"],
    [do |-> Nil, read |-> Nil, status |-> 200, body |-> "null"],
    [do |-> Nil, read |-> Nil, status |-> 200, body |-> "<html>"],
    [do |-> Nil, read |-> Nil, status |-> 400, body |-> "{\"status\":\"FAILURE\"}"] }

\* json.Unmarshal(body, &resp) into a nil *Resp.
Unmarshal(body) ==
  IF body = "null" THEN [resp |-> Nil, err |-> Nil]
  ELSE IF body = "<html>" THEN [resp |-> Nil, err |-> Err("invalid character")]
  ELSE [resp |-> [json |-> body], err |-> Nil]

\* lines 116-136: what the operation returns for an answer to client.Do.
HandleResponse(out) ==
  IF out.do # Nil THEN [resp |-> Nil, err |-> out.do]
  ELSE IF out.read # Nil THEN [resp |-> Nil, err |-> out.read]
  ELSE IF out.status # 200 THEN [resp |-> Nil, err |-> Err("status code")]
  ELSE IF Unmarshal(out.body).err # Nil
  THEN [resp |-> Nil, err |-> Unmarshal(out.body).err]
  ELSE [resp |-> Unmarshal(out.body).resp, err |-> Nil]

\* Whether the operation goes on to client.Do after SetSignatureV4 returned err.
DispatchesIgnoringErr(err) == TRUE

Dispatches(err) == err = Nil

\* lines 110-136: after SetSignatureV4: return its error, or dispatch the
\* request and decode the answer.
OpAfterSign(p) ==
  /\ kind[p] \in OpKinds
  /\ pc[p] = "ret"
  /\ IF ~Dispatches(loc[p].err)
     THEN /\ result' = [result EXCEPT ![p] = [resp |-> Nil, err |-> loc[p].err]]
          /\ UNCHANGED sent
     ELSE /\ sent' = [sent EXCEPT ![p] = req[p]]
          /\ \E out \in NetOutcomes :
               result' = [result EXCEPT ![p] = HandleResponse(out)]
  /\ pc' = [pc EXCEPT ![p] = "done"]
  /\ UNCHANGED <<svc, kind, req, loc, entry, nsigns, nsets, overlap>>
  /\ UNCHANGED notAgcod

\* The operation's caller takes the result.
OpReturn(p) ==
  /\ kind[p] \in OpKinds
  /\ pc[p] = "done"
  /\ Reset(p)
  /\ UNCHANGED <<svc, nsets>>
  /\ UNCHANGED notAgcod

\* ---------------------------------------------------------- specifications
Setters ==
  \/ \E region \in Regions : SetRegion(region)
  \/ \E token \in Tokens : SetToken(token)
  \/ \E service \in ServiceNames : SetService(service)
  \/ \E partnerID \in PartnerIDs : SetPartnerID(partnerID)

\* No SetSignatureV4 call is between its entry and its return.
Quiet == \A p \in Procs : ~InCall(p)

\* What one caller does with the Service.
Step(p) ==
  \/ CallerNewRequest(p, Requests)
  \/ CallSetSignatureV4(p)
  \/ NewStaticCredentials(p)
  \/ ReadBody(p)
  \/ SignWithBody(p)
  \/ SignNoBody(p)
  \/ CallerDrop(p)
  \/ \E k \in OpKinds : StartOp(p, k)
  \/ OpAfterSign(p)
  \/ OpReturn(p)

\* One goroutine (caller 1) uses the Service: it configures it between calls,
\* signs requests and runs the gift-card operations.
Next == (Quiet /\ Setters) \/ Step(1)

Spec == Init /\ [][Next]_vars

\* Two goroutines call SetSignatureV4 on their own requests at the same time,
\* on a Service that was configured before they started.
Configured ==
  { [NewService(k, s, "https://agcod-v2-fe-gamma.amazon.com") EXCEPT
       !.context = [region |-> "us-west-2", token |-> t,
                    service |-> n, partnerID |-> ""]] :
      k \in Keys, s \in Secrets, t \in Tokens, n \in {"AGCODService"} }

ConcRequests ==
  { NewRequest("GET", SearchURL(<<>>), Nil),
    WithHeader(NewRequest("POST", GiftURL, BytesBody(PostBody)), PresetTest),
    NewRequest("POST", GiftURL, BytesBody("")),
    WithHeader(NewRequest("POST", GiftURL, FailingBody), PresetTest) }

InitConc ==
  /\ svc \in Configured
  /\ pc = [p \in Procs |-> "idle"]
  /\ kind = [p \in Procs |-> "none"]
  /\ req = [p \in Procs |-> Nil]
  /\ loc = [p \in Procs |-> NoLocals]
  /\ entry = [p \in Procs |-> Nil]
  /\ sent = [p \in Procs |-> Nil]
  /\ result = [p \in Procs |-> Nil]
  /\ nsigns = [p \in Procs |-> 0]
  /\ nsets = 0
  /\ overlap = [p \in Procs |-> FALSE]
  /\ AgcodOnly

StepConc(p) ==
  \/ CallerNewRequest(p, ConcRequests)
  \/ CallSetSignatureV4(p)
  \/ NewStaticCredentials(p)
  \/ ReadBody(p)
  \/ SignWithBody(p)
  \/ SignNoBody(p)
  \/ CallerDrop(p)

NextConc == \E p \in Procs : StepConc(p)

SpecConc == InitConc /\ [][NextConc]_vars

\* One goroutine signs requests on a Service configured as the signature
\* tests configure it: NewService, SetRegion, SetService, SetToken.
TestServices ==
  { [NewService(k, s, "") EXCEPT
       !.context = [region |-> rs[1], token |-> t, service |-> rs[2],
                    partnerID |-> ""]] :
      k \in Keys, s \in Secrets, t \in Tokens,
      rs \in {<<"us-east-1", "es">>, <<"us-west-2", "AGCODService">>} }

InitTest ==
  /\ svc \in TestServices
  /\ pc = [p \in Procs |-> "idle"]
  /\ kind = [p \in Procs |-> "none"]
  /\ req = [p \in Procs |-> Nil]
  /\ loc = [p \in Procs |-> NoLocals]
  /\ entry = [p \in Procs |-> Nil]
  /\ sent = [p \in Procs |-> Nil]
  /\ result = [p \in Procs |-> Nil]
  /\ nsigns = [p \in Procs |-> 0]
  /\ nsets = 0
  /\ overlap = [p \in Procs |-> FALSE]
  /\ AgcodOnly

NextTest == StepConc(1)

SpecTest == InitTest /\ [][NextTest]_vars

\* SetSignatureV4(r, signTime) on Service s run from entry to return with no
\* other step in between: the request it leaves and the error it returns.
RunAlone(r, s, signTime, now, ord) ==
  LET creds == [key |-> s.accessKey, secret |-> s.accessSecret,
                token |-> s.context.token]
  IN IF r.body = Nil
     THEN Sign(r, Nil, s.context.service, s.context.region, signTime, creds, now, ord)
     ELSE IF ReadAll(r.body).err # Nil
     THEN [req |-> [r EXCEPT !.body.closed = TRUE], err |-> ReadAll(r.body).err]
     ELSE LET read == [r EXCEPT !.body.drained = TRUE]
              res == Sign(read, BytesBody(ReadAll(r.body).data), s.context.service,
                          s.context.region, signTime, creds, now, ord)
          IN [req |-> DeferredClose(read.body, res.req), err |-> res.err]

\* ================================================================ claims
\* SetSignatureV4 has returned to caller p / has returned nil.
Returned(p) == pc[p] = "ret"
Succeeded(p) == Returned(p) /\ loc[p].err = Nil

Authorization(r) == HeaderGet(r.header, "Authorization")

\* The names of a set, in byte order.
SortedNames(S) == SelectSeq(StrOrder, LAMBDA n : n \in S)

RECURSIVE TwiceHost(_)
TwiceHost(xs) ==
  IF xs = <<>> THEN <<>>
  ELSE IF Head(xs) = "host" THEN <<"host", "host">> \o Tail(xs)
  ELSE <<Head(xs)>> \o TwiceHost(Tail(xs))

\* C1: two SetSignatureV4 calls that were given the same request (method, URL,
\* headers, body), the same Service values and the same signTime leave the
\* same Authorization header.
C1_SameInputsSameAuthorization ==
  \A p, q \in Procs :
    (Succeeded(p) /\ Succeeded(q) /\ entry[p] = entry[q])
      => Authorization(req[p]) = Authorization(req[q])

\* C2: after a successful SetSignatureV4 call the Authorization header is
\* AWS4-HMAC-SHA256 with Credential = the Service's access key, the UTC date
\* of signTime, and the region and service set on the Service before the call,
\* ending in aws4_request.
C2_AuthorizationOfSignTime ==
  \A p \in Procs :
    Succeeded(p) =>
      LET a == Authorization(req[p])
          s == entry[p].svc
      IN /\ a.algorithm = "AWS4-HMAC-SHA256"
         /\ a.credential.accessKey = s.accessKey
         /\ a.credential.scope =
              [date |-> FormatShortTime(entry[p].signTime),
               region |-> s.context.region, service |-> s.context.service,
               terminator |-> "aws4_request"]

\* C3 as claimed: after a successful call the request has an
\* x-amz-security-token header, and SignedHeaders lists it, exactly when the
\* Service token is not empty; x-amz-date and Authorization are present.
C3_TokenHeaderIffToken ==
  \A p \in Procs :
    Succeeded(p) =>
      LET h == req[p].header
          tokenSet == entry[p].svc.context.token # ""
      IN /\ ("X-Amz-Security-Token" \in DOMAIN h) <=> tokenSet
         /\ (\E i \in DOMAIN Authorization(req[p]).signedHeaders :
               Authorization(req[p]).signedHeaders[i] = "x-amz-security-token")
              <=> tokenSet
         /\ "X-Amz-Date" \in DOMAIN h
         /\ "Authorization" \in DOMAIN h

\* C3 amended: after a successful call the request has an x-amz-security-token
\* header exactly when the Service token is not empty or the request already
\* had that header before the call; SignedHeaders lists it exactly when the
\* request has it; with a non-empty token its value is the token; x-amz-date
\* and Authorization are present.
C3_TokenHeaderSetWhenToken ==
  \A p \in Procs :
    Succeeded(p) =>
      LET h == req[p].header
          token == entry[p].svc.context.token
          has == "X-Amz-Security-Token" \in DOMAIN h
      IN /\ has <=> (token # "" \/ "X-Amz-Security-Token" \in DOMAIN entry[p].req.header)
         /\ (\E i \in DOMAIN Authorization(req[p]).signedHeaders :
               Authorization(req[p]).signedHeaders[i] = "x-amz-security-token")
              <=> has
         /\ token # "" => h["X-Amz-Security-Token"] = <<Str(token)>>
         /\ "X-Amz-Date" \in DOMAIN h
         /\ "Authorization" \in DOMAIN h

C3_Witness ==
  \E p \in Procs : Succeeded(p) /\ entry[p].svc.context.token # ""

C5_BodyRestored ==
  \A p \in Procs :
    /\ (Succeeded(p) /\ entry[p].req.body # Nil) =>
         /\ req[p].body # Nil
         /\ ~req[p].body.closed /\ ~req[p].body.drained /\ ~req[p].body.fails
         /\ req[p].body.data = entry[p].req.body.data
    /\ sent[p] # Nil =>
         /\ Remaining(sent[p].body) = entry[p].req.body.data
         /\ Authorization(sent[p]).signature.hmacData.hash.sha256.bodyDigest
              = SHA256(Remaining(sent[p].body))

C5_Witness ==
  \E p \in Procs : sent[p] # Nil /\ Remaining(sent[p].body) # ""

\* C6: when reading the request body fails, SetSignatureV4 returns the read
\* error and the request has no Authorization, x-amz-date or
\* x-amz-security-token header that it did not have before the call.
C6_ReadErrorAddsNoHeader ==
  \A p \in Procs :
    (Returned(p) /\ entry[p].req.body # Nil /\ entry[p].req.body.fails) =>
      /\ loc[p].err = Err("read error")
      /\ \A k \in {"Authorization", "X-Amz-Date", "X-Amz-Security-Token"} :
           k \in DOMAIN req[p].header => k \in DOMAIN entry[p].req.header
      /\ req[p].header = entry[p].req.header

C6_Witness ==
  \E p \in Procs : Returned(p) /\ loc[p].err = Err("read error")

\* C7: after every successful call, also on a request that already had an
\* Authorization header, x-amz-date and the date of the credential scope are
\* those of the signTime argument.
C7_DateFromSignTime ==
  \A p \in Procs :
    Succeeded(p) =>
      /\ HeaderGet(req[p].header, "X-Amz-Date") = FormatTime(entry[p].signTime)
      /\ Authorization(req[p]).credential.scope.date
           = FormatShortTime(entry[p].signTime)

\* C8: a gift-card operation dispatches its request only after SetSignatureV4
\* returned nil for that request; when SetSignatureV4 returned an error the
\* operation returns (nil, that error) and nothing is dispatched.
C8_DispatchAfterSigning ==
  \A p \in Procs :
    kind[p] \in OpKinds =>
      /\ sent[p] # Nil =>
           /\ pc[p] = "done" /\ loc[p].err = Nil /\ nsigns[p] = 1
           /\ sent[p] = req[p]
           /\ IsRequestSigned(sent[p])
      /\ (pc[p] = "done" /\ loc[p].err # Nil) =>
           /\ sent[p] = Nil
           /\ result[p] = [resp |-> Nil, err |-> loc[p].err]

C8_Witness ==
  \E p \in Procs : kind[p] \in OpKinds /\ pc[p] = "done" /\ loc[p].err # Nil

\* C9: whatever the interleaving of two SetSignatureV4 calls on two requests,
\* each call leaves the headers and returns the error that the call would
\* leave and return run alone on its request.
C9_AsIfAlone ==
  \A p \in Procs :
    Returned(p) =>
      \E now \in Clock, ord \in BOOLEAN :
        LET alone == RunAlone(entry[p].req, entry[p].svc, entry[p].signTime, now, ord)
        IN /\ req[p].header = alone.req.header
           /\ loc[p].err = alone.err

C9_Witness ==
  \E p \in Procs : Succeeded(p) /\ overlap[p] /\ entry[p].req.body # Nil

\* A step of SetSignatureV4 itself (lines 74-94).
SignatureStep(p) ==
  \/ NewStaticCredentials(p)
  \/ ReadBody(p)
  \/ SignWithBody(p)
  \/ SignNoBody(p)

\* C10: no step of SetSignatureV4 changes the Service, the request's method or
\* URL, or dispatches a request.
C10_OnlyHeadersChange ==
  [][\A p \in Procs :
       SignatureStep(p) =>
         /\ svc' = svc
         /\ sent' = sent
         /\ req'[p].method = req[p].method
         /\ req'[p].url = req[p].url]_vars

\* C11: when the Service's base URL makes the request URL unparseable, a
\* gift-card operation that was started has returned, and returned a non-nil
\* error: it does not panic and does not go on with a request.
C11_UnparseableURLReturnsError ==
  \A p \in Procs :
    (kind[p] \in OpKinds /\ ParseURL(svc.baseURL, "/" \o kind[p]) = Nil) =>
      /\ pc[p] = "done"
      /\ result[p].err # Nil
      /\ sent[p] = Nil

\* C12: a gift-card operation that has returned gives a nil error exactly when
\* it gives a non-nil response.
C12_ResponseIffNoError ==
  \A p \in Procs :
    (kind[p] \in OpKinds /\ pc[p] = "done") =>
      ((result[p].err = Nil) <=> (result[p].resp # Nil))

\* The call of TestGETSignature: a body-less GET of
\* https://subdomain.us-east-1.es.amazonaws.com/log-*/_search with no header,
\* access key AKID, secret SECRET, token SESSION, region us-east-1, service es,
\* signTime Unix 0, has returned nil to caller p.
KnownVectorGET(p) ==
  /\ Succeeded(p)
  /\ entry[p].req = NewRequest("GET", SearchURL(<<>>), Nil)
  /\ entry[p].svc.accessKey = "AKID" /\ entry[p].svc.accessSecret = "SECRET"
  /\ entry[p].svc.context.token = "SESSION"
  /\ entry[p].svc.context.region = "us-east-1"
  /\ entry[p].svc.context.service = "es"
  /\ entry[p].signTime = 0

\* C13: the call of the known vector leaves the Authorization header
\* AWS4-HMAC-SHA256 Credential=AKID/19700101/us-east-1/es/aws4_request,
\* SignedHeaders=host;x-amz-date;x-amz-security-token,
\* Signature=6601e883cc6d23871fd6c2a394c5677ea2b8c82b04a6446786d64cd74f520967.
C13_KnownVector ==
  \A p \in Procs :
    KnownVectorGET(p) =>
      AuthorizationString(Authorization(req[p])) =
        Bytes("AWS4-HMAC-SHA256 Credential=AKID/19700101/us-east-1/es/aws4_request, "
              \o "SignedHeaders=host;x-amz-date;x-amz-security-token, "
              \o "Signature=6601e883cc6d23871fd6c2a394c5677ea2b8c82b04a6446786d64cd74f520967")

C13_Witness == \E p \in Procs : KnownVectorGET(p)

\* ------------------------------------------------------- Async* functions
\* s3.AsyncUpload, sqs.AsyncSendMessage, sqs.AsyncReceiveMessage,
\* sqs.AsyncDeleteMessage, cloudsearch.AsyncSearch, cloudsearch.AsyncUpload
\* and ses.AsyncSendTamplateEmail share one body:
\*
\*   func (s *Service) AsyncX(opts *XOptions) (respchan chan<- *XResponse) {
\*       respchan = make(chan *XResponse)
\*       go func() { respchan <- s.X(opts) }()
\*       return respchan
\*   }
\*
\* The channel is unbuffered and both the goroutine and the caller hold it
\* as chan<- *XResponse.  A value of that type can be sent on and closed;
\* the language has no receive on it and no conversion back to chan.

\* How many Async* calls one behaviour makes.
MaxAsync == 2

\* The synchronous operation each Async* function runs in its goroutine.
SyncOf ==
  [ S3AsyncUpload |-> "s3.Upload",
    SqsAsyncSendMessage |-> "sqs.SendMessage",
    SqsAsyncReceiveMessage |-> "sqs.ReceiveMessage",
    SqsAsyncDeleteMessage |-> "sqs.DeleteMessage",
    CloudsearchAsyncSearch |-> "cloudsearch.Search",
    CloudsearchAsyncUpload |-> "cloudsearch.Upload",
    SesAsyncSendTamplateEmail |-> "ses.SendEmail" ]

AsyncFuncs == DOMAIN SyncOf

\* The *XOptions values callers pass.
OptionsPtrs == {"optsA", "optsB"}

\* The *XResponse that synchronous operation op returns when called with
\* opts, whatever AWS answers: a term naming the call that produced it.
Response(op, opts) == [op |-> op, opts |-> opts]

\* make(chan *XResponse): a channel no earlier make returned, unbuffered.
MakeChanShared(chs) == 1

MakeChan(chs) == Len(chs) + 1

NewChan == [closed |-> FALSE, cap |-> 0]

\* respchan = make(chan *XResponse): the call begins.
AsyncMake(f, opts) ==
  /\ Len(calls) < MaxAsync
  /\ LET ch == MakeChan(chans)
     IN /\ chans' = [i \in 1..IF ch > Len(chans) THEN ch ELSE Len(chans) |->
                       IF i = ch THEN NewChan ELSE chans[i]]
        /\ calls' = Append(calls,
                      [func |-> f, opts |-> opts, respchan |-> ch, cpc |-> "go",
                       gpc |-> "none", val |-> Nil, goroutines |-> 0,
                       sends |-> 0])
  /\ UNCHANGED notAsync

\* go func() { ... }(): the goroutine exists, the call goes on.
AsyncGo(c) ==
  /\ c \in DOMAIN calls
  /\ calls[c].cpc = "go"
  /\ calls' = [calls EXCEPT ![c].cpc = "return", ![c].gpc = "run",
                            ![c].goroutines = @ + 1]
  /\ UNCHANGED chans
  /\ UNCHANGED notAsync

\* return respchan: the caller holds the send-only channel.
AsyncReturn(c) ==
  /\ c \in DOMAIN calls
  /\ calls[c].cpc = "return"
  /\ calls' = [calls EXCEPT ![c].cpc = "returned"]
  /\ UNCHANGED chans
  /\ UNCHANGED notAsync

\* The goroutine evaluates s.X(opts), which returns, and begins the send
\* respchan <- value.  An unbuffered send completes when another goroutine
\* receives from the channel.
GoSync(c) ==
  /\ c \in DOMAIN calls
  /\ calls[c].gpc = "run"
  /\ calls' = [calls EXCEPT
                ![c].val = Response(SyncOf[calls[c].func], calls[c].opts),
                ![c].gpc = "send", ![c].sends = @ + 1]
  /\ UNCHANGED chans
  /\ UNCHANGED notAsync

\* close(respchan) by the caller, which the type chan<- allows.
CallerClose(c) ==
  /\ c \in DOMAIN calls
  /\ calls[c].cpc = "returned"
  /\ ~chans[calls[c].respchan].closed
  /\ chans' = [chans EXCEPT ![calls[c].respchan].closed = TRUE]
  /\ UNCHANGED calls
  /\ UNCHANGED notAsync

\* A send on a closed channel panics, also when it was already waiting.
GoSendPanics(c) ==
  /\ c \in DOMAIN calls
  /\ calls[c].gpc = "send"
  /\ chans[calls[c].respchan].closed
  /\ calls' = [calls EXCEPT ![c].gpc = "panic"]
  /\ UNCHANGED chans
  /\ UNCHANGED notAsync

\* The goroutine is past its send: a receiver took the value.
Delivered(c) == calls[c].gpc = "done"

InitAsync == AsyncIdle /\ AsyncOnly

GoStep(c) == GoSync(c) \/ GoSendPanics(c)

CallStep(c) == AsyncGo(c) \/ AsyncReturn(c)

NextAsync ==
  \/ \E f \in AsyncFuncs, opts \in OptionsPtrs : AsyncMake(f, opts)
  \/ \E c \in 1..MaxAsync : CallStep(c) \/ GoStep(c) \/ CallerClose(c)

SpecAsync == InitAsync /\ [][NextAsync]_vars

\* The Go scheduler runs every goroutine that can take a step: the spawned
\* goroutine and the one executing the Async* call.  Nothing obliges a
\* caller to make a call or to close a channel.
SpecAsyncFair ==
  /\ SpecAsync
  /\ \A c \in 1..MaxAsync : WF_vars(GoStep(c)) /\ WF_vars(CallStep(c))

\* C14: after any Async* call, once the synchronous operation has returned in
\* the spawned goroutine, its response is eventually delivered through the
\* returned channel and the goroutine ends.
C14_ResponseEventuallyDelivered ==
  \A c \in 1..MaxAsync :
    (c \in DOMAIN calls /\ calls[c].gpc = "send")
      ~> (c \in DOMAIN calls /\ Delivered(c))

\* C15: each Async* call returns without waiting for the underlying
\* operation and spawns exactly one goroutine; that goroutine performs at
\* most one send on the returned channel, and the value it sends is the
\* response of the synchronous operation called with the same options;
\* concurrent Async* calls use distinct channels.
C15_OneGoroutineOneSend ==
  \A c \in DOMAIN calls :
    /\ calls[c].cpc = "return" => ENABLED AsyncReturn(c)
    /\ calls[c].goroutines = IF calls[c].cpc = "go" THEN 0 ELSE 1
    /\ calls[c].sends <= 1
    /\ calls[c].sends = 1 =>
         calls[c].val = Response(SyncOf[calls[c].func], calls[c].opts)
    /\ \A d \in DOMAIN calls : d # c => calls[d].respchan # calls[c].respchan

\* Two calls have returned their channels, one goroutine has begun its send
\* and the other has not yet run its operation.
C15_Witness ==
  \E c, d \in DOMAIN calls :
    /\ c # d
    /\ calls[c].cpc = "returned" /\ calls[d].cpc = "returned"
    /\ calls[c].gpc = "send" /\ calls[c].sends = 1
    /\ calls[d].gpc = "run"

\* -------------------------------------------------------------- package rds
\* RestoreDBClusterFromSnapshot(opts) declares the named result
\* resp *RestoreDBClusterFromSnapshotResponse, which starts as nil, and
\* assigns a response to it on no path: the refusal of "woodstock-prod"
\* returns a fresh &RestoreDBClusterFromSnapshotResponse{...} of its own.
DBClusterIdentifiers == {"woodstock-prod", "woodstock-pre-prod", "woodstock-dev"}
SnapshotIdentifiers == {"", "rds:woodstock-prod-snapshot", "manual-snapshot"}
RestoreTimeouts == {0, 60, 3600}

RestoreOpts ==
  [DBClusterIdentifier : DBClusterIdentifiers,
   SnapshotIdentifier : SnapshotIdentifiers,
   Timeout : RestoreTimeouts]

\* What client.RestoreDBClusterFromSnapshotWithContext returns as its error.
RestoreErrors ==
  {Nil, Err("DBClusterAlreadyExistsFault"), Err("RequestCanceled")}

DefaultRestoreSeconds == 30 * 60

\* t := 30 * 60 * time.Second; if opts.Timeout > 0 { t = opts.Timeout }
RestoreDeadline(opts) ==
  IF opts.Timeout > 0 THEN opts.Timeout ELSE DefaultRestoreSeconds

\* The *rds.RestoreDBClusterFromSnapshotInput the call hands to the SDK.
RestoreInput(opts) ==
  [DBClusterIdentifier |-> opts.DBClusterIdentifier,
   SnapshotIdentifier |-> opts.SnapshotIdentifier,
   DBClusterParameterGroupName |-> "woodstock-aurora-cluster-prod",
   DBSubnetGroupName |-> "main_subnet_group_prod_ap-northeast-1",
   Engine |-> "aurora-mysql"]

\* The value the named result resp holds when nothing was assigned to it.
RestoreRespZero == Nil

\* The locals of a call of RestoreDBClusterFromSnapshot(opts) at its entry:
\* client is the local of line 166, created tells whether the call built the
\* package's instance (once.Do in s.client()).
RestoreEntry(opts, inst, issued) ==
  [opts |-> opts, pc |-> "L158", resp |-> RestoreRespZero, input |-> Nil,
   deadline |-> 0, err |-> Nil, client |-> Nil, created |-> FALSE,
   instance |-> inst, issued |-> issued]

\* A caller is about to run RestoreDBClusterFromSnapshot(opts) in a process
\* that has not built the client and has sent no restore request.
InitRds ==
  /\ rds \in {RestoreEntry(opts, Nil, {}) : opts \in RestoreOpts}
  /\ RdsOnly

\* instance = rds.New(sess)
RdsClient == [sdk |-> "rds.RDS"]

\* if opts.DBClusterIdentifier == "woodstock-prod"
RefusedNever(opts) == FALSE

Refused(opts) == opts.DBClusterIdentifier = "woodstock-prod"

\* s.context.check(); opts.DBClusterIdentifier == "woodstock-prod": return
\* a response that carries the refusal.
RestoreRefuse ==
  /\ rds # Nil
  /\ rds.pc = "L158"
  /\ Refused(rds.opts)
  /\ rds' = [rds EXCEPT
               !.resp = [Error |-> Err("woodstock-prod db cluster cannot be restored")],
               !.pc = "returned"]
  /\ UNCHANGED notRds

\* client := s.client(), which builds the package's instance on the first
\* call; client.RestoreDBClusterFromSnapshotWithContext(ctx, input) under the
\* deadline t; the SDK returns its error or nil.
RestoreRequest ==
  /\ rds # Nil
  /\ rds.pc = "L158"
  /\ ~Refused(rds.opts)
  /\ \E e \in RestoreErrors :
       rds' = [rds EXCEPT !.client = RdsClient,
                          !.created = (rds.instance = Nil),
                          !.instance = RdsClient,
                          !.input = RestoreInput(rds.opts),
                          !.issued = @ \cup {RestoreInput(rds.opts).DBClusterIdentifier},
                          !.deadline = RestoreDeadline(rds.opts),
                          !.err = e, !.pc = "L183"]
  /\ UNCHANGED notRds

\* if err != nil { resp.Error = err }; return.  resp.Error = err on a nil
\* resp is a nil pointer dereference.
RestoreReturn ==
  /\ rds # Nil
  /\ rds.pc = "L183"
  /\ rds' = IF rds.err = Nil
              THEN [rds EXCEPT !.pc = "returned"]
              ELSE IF rds.resp = Nil
                     THEN [rds EXCEPT !.pc = "panic"]
                     ELSE [rds EXCEPT !.resp.Error = rds.err, !.pc = "returned"]
  /\ UNCHANGED notRds

\* The caller calls RestoreDBClusterFromSnapshot again after a return.
RestoreAgain ==
  /\ rds # Nil
  /\ rds.pc = "returned"
  /\ \E opts \in RestoreOpts : rds' = RestoreEntry(opts, rds.instance, rds.issued)
  /\ UNCHANGED notRds

NextRds == RestoreRefuse \/ RestoreRequest \/ RestoreReturn \/ RestoreAgain

SpecRds == InitRds /\ [][NextRds]_vars

\* C16: RestoreDBClusterFromSnapshot always returns a non-nil response; its
\* Error field is nil when the restore request succeeded and holds the SDK
\* error when the request failed.
C16_RestoreResponseNeverNil ==
  (rds # Nil /\ rds.pc \in {"returned", "panic"}) =>
    /\ rds.pc = "returned"
    /\ rds.resp # Nil
    /\ rds.input # Nil => rds.resp.Error = rds.err

\* ------------------------------------------------------ encoding/json
\* Go values that callers store: an int, a float64, a string, a nil
\* interface, a chan, and Person{Name, Age} of the tests.
GoInt(n) == [t |-> "int", n |-> n, s |-> ""]
GoFloat(n) == [t |-> "float64", n |-> n, s |-> ""]
GoString(str) == [t |-> "string", n |-> 0, s |-> str]
GoNil == [t |-> "nil", n |-> 0, s |-> ""]
GoChan == [t |-> "chan", n |-> 0, s |-> ""]
Person(name, age) == [t |-> "Person", n |-> age, s |-> name]

\* The zero value of type T.
Zero(T) ==
  CASE T = "int" -> GoInt(0)
    [] T = "string" -> GoString("")
    [] T = "any" -> GoNil

DigitChars == "0123456789"

\* strconv.Itoa for n >= 0.
RECURSIVE Itoa(_)
Itoa(n) ==
  IF n < 10 THEN SubSeq(DigitChars, n + 1, n + 1)
  ELSE Itoa(n \div 10) \o SubSeq(DigitChars, (n % 10) + 1, (n % 10) + 1)

DigitOf(c) == (CHOOSE i \in 1..Len(DigitChars) : SubSeq(DigitChars, i, i) = c) - 1

IsDigit(c) == \E i \in 1..Len(DigitChars) : SubSeq(DigitChars, i, i) = c

\* A JSON number without sign, fraction or exponent.
IsNumber(text) ==
  /\ Len(text) > 0
  /\ \A i \in 1..Len(text) : IsDigit(SubSeq(text, i, i))
  /\ Len(text) > 1 => SubSeq(text, 1, 1) # "0"

RECURSIVE Atoi(_)
Atoi(text) ==
  IF Len(text) = 1 THEN DigitOf(text)
  ELSE (10 * Atoi(SubSeq(text, 1, Len(text) - 1)))
         + DigitOf(SubSeq(text, Len(text), Len(text)))

\* A JSON string of characters that need no escape.
IsQuoted(text) ==
  /\ Len(text) >= 2
  /\ SubSeq(text, 1, 1) = "\""
  /\ SubSeq(text, Len(text), Len(text)) = "\""
  /\ \A i \in 2..(Len(text) - 1) : SubSeq(text, i, i) \notin {"\"", "\\"}

\* json.Marshal(value): the JSON text, or an error for an unsupported type.
MarshalJSON(value) ==
  CASE value.t \in {"int", "float64"} -> [text |-> Itoa(value.n), err |-> Nil]
    [] value.t = "string" -> [text |-> "\"" \o value.s \o "\"", err |-> Nil]
    [] value.t = "nil" -> [text |-> "null", err |-> Nil]
    [] value.t = "Person" ->
         [text |-> "{\"Name\":\"" \o value.s \o "\",\"Age\":" \o Itoa(value.n) \o "}",
          err |-> Nil]
    [] value.t = "chan" ->
         [text |-> "", err |-> Err("json: unsupported type: chan int")]

\* json.Unmarshal(text, &data) for data of type T holding the value data0:
\* the value data holds afterwards and the error.
UnmarshalJSON(text, T, data0) ==
  IF text = "null" THEN [data |-> IF T = "any" THEN GoNil ELSE data0, err |-> Nil]
  ELSE IF IsNumber(text) THEN
    CASE T = "int" -> [data |-> GoInt(Atoi(text)), err |-> Nil]
      [] T = "any" -> [data |-> GoFloat(Atoi(text)), err |-> Nil]
      [] T = "string" ->
           [data |-> data0,
            err |-> Err("json: cannot unmarshal number into Go value of type string")]
  ELSE IF IsQuoted(text) THEN
    CASE T \in {"string", "any"} ->
           [data |-> GoString(SubSeq(text, 2, Len(text) - 1)), err |-> Nil]
      [] T = "int" ->
           [data |-> data0,
            err |-> Err("json: cannot unmarshal string into Go value of type int")]
  ELSE [data |-> data0, err |-> Err("json: invalid or unsupported input")]

\* ------------------------------------------------- package elasticache
\* The Redis server behind the pool, as far as the commands SET, EXPIRE,
\* GET, DEL, SADD and SCARD go.  A key holds a string or a set; ttl is the
\* number of seconds it has left, 0 for a key that does not expire.
\* The calls of one behaviour all name the same key.
CacheKeys == {"test"}
TTLSeconds == {0, 1, 2}

StringEntry(text) == [kind |-> "string", text |-> text, members |-> {}, ttl |-> 0]
SetEntry(members) == [kind |-> "set", text |-> "", members |-> members, ttl |-> 0]

WrongType ==
  Err("WRONGTYPE Operation against a key holding the wrong kind of value")
ErrNil == Err("redigo: nil returned")

\* SET key text: any old value, its type and its time to live are replaced.
RedisSet(st, key, text) == [st EXCEPT ![key] = StringEntry(text)]

\* EXPIRE key seconds: no effect on a key that does not exist.
RedisExpire(st, key, seconds) ==
  IF st[key] = Nil THEN st ELSE [st EXCEPT ![key].ttl = seconds]

\* DEL key.
RedisDelKeepsKey(st, key) == st

RedisDel(st, key) == [st EXCEPT ![key] = Nil]

\* redis.Bytes(conn.Do("GET", key)): a nil reply becomes redis.ErrNil.
RedisGetBytes(st, key) ==
  IF st[key] = Nil THEN [value |-> "", err |-> ErrNil]
  ELSE IF st[key].kind # "string" THEN [value |-> "", err |-> WrongType]
  ELSE [value |-> st[key].text, err |-> Nil]

\* SADD key member...: creates the set when the key does not exist.
RedisSAdd(st, key, memberStrings) ==
  IF memberStrings = {}
  THEN [st |-> st, err |-> Err("ERR wrong number of arguments for 'sadd' command")]
  ELSE IF st[key] = Nil
  THEN [st |-> [st EXCEPT ![key] = SetEntry(memberStrings)], err |-> Nil]
  ELSE IF st[key].kind # "set" THEN [st |-> st, err |-> WrongType]
  ELSE [st |-> [st EXCEPT ![key].members = @ \cup memberStrings], err |-> Nil]

\* redis.Int(conn.Do("SCARD", key)): Redis answers 0 for a key that does
\* not exist.
RedisSCard(st, key) ==
  IF st[key] = Nil THEN [count |-> 0, err |-> Nil]
  ELSE IF st[key].kind # "set" THEN [count |-> 0, err |-> WrongType]
  ELSE [count |-> Cardinality(st[key].members), err |-> Nil]

\* What a call returned: data and count are the zero value where the
\* function has no such result.
Ret(op, key, T, data, count, err) ==
  [op |-> op, key |-> key, T |-> T, data |-> data, count |-> count, err |-> err]

\* The type parameter T and the value of Set[T] calls, and the T of Get[T].
SetInputs ==
  { <<"int", GoInt(7)>>, <<"int", GoInt(12)>>, <<"string", GoString("abc")>>,
    <<"any", GoInt(7)>>, <<"any", GoChan>> }
GetTypes == {"int", "string", "any"}

\* The members of SAdd[Person] calls.
People == {Person("John", 30), Person("Jane", 25)}

InitCache ==
  /\ store = [k \in CacheKeys |-> Nil]
  /\ cret = Nil
  /\ lastSet = [k \in CacheKeys |-> Nil]
  /\ deleted = [k \in CacheKeys |-> FALSE]
  /\ CacheOnly

\* Set[T](s, key, value, ttlSeconds) without nx.  The server may refuse SET
\* with an error reply (OOM under maxmemory, READONLY on a replica), which
\* leaves the connection usable for the EXPIRE that follows.
Set(T, key, value, ttlSeconds, refused) ==
  LET m == MarshalJSON(value)
      afterSet == IF refused THEN store ELSE RedisSet(store, key, m.text)
      errSet == IF refused THEN Err("OOM command not allowed") ELSE Nil
      err == IF m.err # Nil THEN m.err
             ELSE IF ttlSeconds > 0 THEN Nil
             ELSE errSet
  IN /\ store' = IF m.err # Nil THEN store
                 ELSE IF ttlSeconds > 0 THEN RedisExpire(afterSet, key, ttlSeconds)
                 ELSE afterSet
     /\ cret' = Ret("Set", key, T, Nil, 0, err)
     /\ lastSet' = [lastSet EXCEPT ![key] =
                      [T |-> T, value |-> value, ttl |-> ttlSeconds, err |-> err,
                       errSet |-> IF m.err # Nil THEN Nil ELSE errSet]]
     /\ deleted' = [deleted EXCEPT ![key] = FALSE]
     /\ UNCHANGED notCache

\* Get[T](s, key).
Get(T, key) ==
  LET reply == RedisGetBytes(store, key)
      parsed == UnmarshalJSON(reply.value, T, Zero(T))
  IN /\ cret' = IF reply.err # Nil THEN Ret("Get", key, T, Zero(T), 0, reply.err)
                ELSE Ret("Get", key, T, parsed.data, 0, parsed.err)
     /\ UNCHANGED <<store, lastSet, deleted>>
     /\ UNCHANGED notCache

\* Delete(s, key).
Delete(key) ==
  /\ store' = RedisDel(store, key)
  /\ cret' = Ret("Delete", key, "", Nil, 0, Nil)
  /\ deleted' = [deleted EXCEPT ![key] = TRUE]
  /\ UNCHANGED lastSet
  /\ UNCHANGED notCache

\* SAdd[Person](s, key, members, ttlSeconds).
SAdd(key, members, ttlSeconds) ==
  LET memberStrings == {MarshalJSON(m).text : m \in members}
      added == RedisSAdd(store, key, memberStrings)
  IN /\ store' = IF added.err = Nil /\ ttlSeconds > 0
                 THEN RedisExpire(added.st, key, ttlSeconds)
                 ELSE added.st
     /\ cret' = Ret("SAdd", key, "Person", Nil, 0, added.err)
     /\ UNCHANGED <<lastSet, deleted>>
     /\ UNCHANGED notCache

\* SCard(s, key).
SCard(key) ==
  LET reply == RedisSCard(store, key)
  IN /\ cret' = IF reply.err # Nil
                THEN Ret("SCard", key, "", Nil, -1,
                         Err("SCARD command failed: " \o reply.err.error))
                ELSE Ret("SCard", key, "", Nil, reply.count, Nil)
     /\ UNCHANGED <<store, lastSet, deleted>>
     /\ UNCHANGED notCache

\* One second passes on the server: keys whose time to live ends are gone.
Tick ==
  /\ \E k \in CacheKeys : store[k] # Nil /\ store[k].ttl > 0
  /\ store' = [k \in CacheKeys |->
                 IF store[k] = Nil \/ store[k].ttl = 0 THEN store[k]
                 ELSE IF store[k].ttl = 1 THEN Nil
                 ELSE [store[k] EXCEPT !.ttl = @ - 1]]
  /\ UNCHANGED <<cret, lastSet, deleted>>
  /\ UNCHANGED notCache

NextCache ==
  \/ \E in \in SetInputs, k \in CacheKeys, ttl \in TTLSeconds, refused \in BOOLEAN :
       Set(in[1], k, in[2], ttl, refused)
  \/ \E T \in GetTypes, k \in CacheKeys : Get(T, k)
  \/ \E k \in CacheKeys : Delete(k)
  \/ \E k \in CacheKeys, members \in SUBSET People, ttl \in TTLSeconds :
       SAdd(k, members, ttl)
  \/ \E k \in CacheKeys : SCard(k)
  \/ Tick

SpecCache == InitCache /\ [][NextCache]_vars

\* The most recent Set call on key took a value of type T and returned nil,
\* and no Delete of the key followed it.
SetStands(key, T) ==
  /\ lastSet[key] # Nil
  /\ lastSet[key].T = T
  /\ lastSet[key].err = Nil
  /\ ~deleted[key]

\* C17: after any sequence of Set calls on a key (ttl zero or positive, no
\* NX), Get[T] on that key returns without error the value passed to the most
\* recent Set.
C17_GetReturnsLastSet ==
  (cret # Nil /\ cret.op = "Get" /\ SetStands(cret.key, cret.T)) =>
    /\ cret.err = Nil
    /\ cret.data = lastSet[cret.key].value

C20_SCardOfMissingSet ==
  (cret # Nil /\ cret.op = "SCard") =>
    cret.count = IF store[cret.key] # Nil /\ store[cret.key].kind = "set"
                   THEN Cardinality(store[cret.key].members)
                   ELSE -1

\* ---------------------------------------- elasticache Publish / Subscribe
\* Subscribe[T] takes a connection from the pool, writes SUBSCRIBE on it
\* (redigo's PubSubConn.Subscribe sends the command and flushes; it does not
\* read the server's confirmation), makes a buffered channel, starts two
\* goroutines and returns nil.  The "publisher" goroutine moves what
\* psc.Receive reads into the channel; the "subscriber" goroutine takes
\* messages from the channel, unmarshals them and calls the handler.

\* How many messages one behaviour publishes.
MaxPublish == 2

\* make(chan redis.Message, 100), scaled down so that the channel fills.
PubSubChanCap == 1

\* The T of Subscribe[T] and the values of the Publish[T] calls.
SubT == "string"
PublishInputs == {GoString("Hello"), GoInt(7)}

SubscriptionReply == [kind |-> "subscribe", id |-> 0, data |-> ""]
MessageReply(m) == [kind |-> "message", id |-> m.id, data |-> m.text]

InitPubSub == PubSubIdle /\ PubSubOnly

\* Subscribe[T](s, channel, ctx, handler).  When psc.Subscribe fails the
\* connection is closed and the error returned.
Subscribe(ok) ==
  /\ sub.state = "none"
  /\ IF ok
       THEN /\ sub' = [sub EXCEPT !.state = "subscribed", !.inflight = TRUE]
            /\ pubsubChan' = [buf |-> <<>>, closed |-> FALSE]
            /\ gor' = [subscriber |-> "select", publisher |-> "receive", v |-> Nil]
       ELSE /\ sub' = [sub EXCEPT !.state = "failed", !.closes = @ + 1]
            /\ UNCHANGED <<pubsubChan, gor>>
  /\ UNCHANGED <<wire, published, handled>>
  /\ UNCHANGED notPubSub

\* The server reads SUBSCRIBE: the connection is subscribed from now on and
\* is sent the confirmation.
ServerSubscribe ==
  /\ sub.state = "subscribed"
  /\ sub.inflight
  /\ sub' = [sub EXCEPT !.inflight = FALSE, !.server = TRUE]
  /\ wire' = Append(wire, SubscriptionReply)
  /\ UNCHANGED <<pubsubChan, gor, published, handled>>
  /\ UNCHANGED notPubSub

\* Publish[T](s, channel, message), on another connection, after Subscribe
\* returned nil.  The server pushes the message to the connections that are
\* subscribed when it executes PUBLISH.
Publish(message) ==
  /\ sub.state \in {"subscribed", "broken"}
  /\ Len(published) < MaxPublish
  /\ LET m == [id |-> Len(published) + 1, value |-> message,
               text |-> MarshalJSON(message).text]
     IN /\ published' = Append(published, m)
        /\ wire' = IF sub.server THEN Append(wire, MessageReply(m)) ELSE wire
  /\ UNCHANGED <<sub, pubsubChan, gor, handled>>
  /\ UNCHANGED notPubSub

\* _v := psc.Receive() returns what the server pushed: a redis.Message goes
\* on to the channel send, the confirmation of SUBSCRIBE is printed, and on
\* the confirmation of UNSUBSCRIBE the goroutine returns and its deferred
\* close(pubsubChan) runs.
PubReceive ==
  /\ gor.publisher = "receive"
  /\ wire # <<>>
  /\ wire' = Tail(wire)
  /\ gor' = CASE Head(wire).kind = "message" ->
                  [gor EXCEPT !.publisher = "send", !.v = Head(wire)]
             [] Head(wire).kind = "unsubscribe" -> [gor EXCEPT !.publisher = "exit"]
             [] OTHER -> gor
  /\ pubsubChan' = IF Head(wire).kind = "unsubscribe"
                     THEN [pubsubChan EXCEPT !.closed = TRUE]
                     ELSE pubsubChan
  /\ UNCHANGED <<sub, published, handled>>
  /\ UNCHANGED notPubSub

\* psc.Receive() returns an error: the connection broke, or the server
\* closed it because the client did not read fast enough (its output
\* buffer limit for pubsub clients).  The goroutine returns and its
\* deferred close(pubsubChan) runs; nothing subscribes again.
PubReceiveError ==
  /\ gor.publisher = "receive"
  /\ sub.state = "subscribed"
  /\ sub' = [sub EXCEPT !.state = "broken", !.inflight = FALSE, !.server = FALSE,
                         !.unsubscribing = FALSE]
  /\ wire' = <<>>
  /\ gor' = [gor EXCEPT !.publisher = "exit"]
  /\ pubsubChan' = [pubsubChan EXCEPT !.closed = TRUE]
  /\ UNCHANGED <<published, handled>>
  /\ UNCHANGED notPubSub

\* pubsubChan <- v: waits while the channel is full.
PubSend ==
  /\ gor.publisher = "send"
  /\ Len(pubsubChan.buf) < PubSubChanCap
  /\ pubsubChan' = [pubsubChan EXCEPT !.buf = Append(@, gor.v)]
  /\ gor' = [gor EXCEPT !.publisher = "receive", !.v = Nil]
  /\ UNCHANGED <<sub, wire, published, handled>>
  /\ UNCHANGED notPubSub

\* case v, ok := <-pubsubChan with a message: json.Unmarshal(v.Data, &data);
\* on an error the message is printed and skipped, else handler(data) starts.
SubTake ==
  /\ gor.subscriber = "select"
  /\ pubsubChan.buf # <<>>
  /\ LET v == Head(pubsubChan.buf)
         parsed == UnmarshalJSON(v.data, SubT, Zero(SubT))
     IN IF parsed.err # Nil
          THEN UNCHANGED <<gor, handled>>
          ELSE /\ gor' = [gor EXCEPT !.subscriber = "handler"]
               /\ handled' = Append(handled, [id |-> v.id, data |-> parsed.data])
  /\ pubsubChan' = [pubsubChan EXCEPT !.buf = Tail(@)]
  /\ UNCHANGED <<sub, wire, published>>
  /\ UNCHANGED notPubSub

\* handler(data) returns, however long it took.
HandlerReturn ==
  /\ gor.subscriber = "handler"
  /\ gor' = [gor EXCEPT !.subscriber = "select"]
  /\ UNCHANGED <<sub, wire, pubsubChan, published, handled>>
  /\ UNCHANGED notPubSub

\* The deferred calls of the subscriber goroutine: psc.Unsubscribe(channel)
\* writes UNSUBSCRIBE on the connection if it still works, conn.Close()
\* hands the connection back to the pool.
SubscriberDefers(subscription) ==
  [subscription EXCEPT !.unsubscribing = (subscription.state = "subscribed"),
                       !.unsubscribes = @ + 1, !.closes = @ + 1]

\* case v, ok := <-pubsubChan with !ok: the channel is closed and empty, the
\* goroutine returns (deferred psc.Unsubscribe and conn.Close).
SubChanClosed ==
  /\ gor.subscriber = "select"
  /\ pubsubChan.buf = <<>>
  /\ pubsubChan.closed
  /\ gor' = [gor EXCEPT !.subscriber = "exit"]
  /\ sub' = SubscriberDefers(sub)
  /\ UNCHANGED <<wire, pubsubChan, published, handled>>
  /\ UNCHANGED notPubSub

NextPubSub ==
  \/ \E ok \in BOOLEAN : Subscribe(ok)
  \/ ServerSubscribe
  \/ \E message \in PublishInputs : Publish(message)
  \/ PubReceive
  \/ PubReceiveError
  \/ PubSend
  \/ SubTake
  \/ HandlerReturn
  \/ SubChanClosed

SpecPubSub == InitPubSub /\ [][NextPubSub]_vars

\* The server executes the commands it is sent, the Go scheduler runs both
\* goroutines whenever they can take a step, and the handler returns.
\* Nothing obliges anyone to publish, and connections need not break.
SpecPubSubFair ==
  /\ SpecPubSub
  /\ WF_vars(ServerSubscribe)
  /\ WF_vars(PubReceive) /\ WF_vars(PubSend)
  /\ WF_vars(SubTake) /\ WF_vars(HandlerReturn) /\ WF_vars(SubChanClosed)

\* The message's JSON text decodes into the handler's type.
Decodes(m) == UnmarshalJSON(m.text, SubT, Zero(SubT)).err = Nil

\* The calls of the handler made for message id.
HandlerCalls(id) == {i \in 1..Len(handled) : handled[i].id = id}

\* C19: for a subscription created by Subscribe whose context is not
\* cancelled, every message published to the channel after Subscribe returned
\* is passed to the handler exactly once, decoded from JSON, whatever the
\* number of messages and however slow the handler is.  Granted to the
\* claim: the message decodes into the handler's type, and a subscription
\* whose connection broke owes nothing.
C19_EveryMessageHandledOnce ==
  /\ [](\A id \in 1..MaxPublish : Cardinality(HandlerCalls(id)) <= 1)
  /\ \A id \in 1..MaxPublish :
       (Len(published) >= id /\ Decodes(published[id]))
         ~> \/ \E i \in HandlerCalls(id) : handled[i].data = published[id].value
            \/ sub.state = "broken"

\* ------------------------------------------------- empty and absent bodies
\* The request of caller p as it entered SetSignatureV4, without its body.
NilBodyTwin(p) == [entry[p].req EXCEPT !.body = Nil]

\* A returned call on a request whose body is non-nil and holds zero bytes.
SignedZeroBytes(p) ==
  /\ Succeeded(p)
  /\ entry[p].req.body # Nil
  /\ ~entry[p].req.body.fails
  /\ entry[p].req.body.data = ""

\* The payload hash in the canonical request of a call that read body.
PayloadHash(r, body, service) == BodyDigest(r.header, body, service).hash

\* C30: a request with a nil Body and the same request with a non-nil body of
\* zero bytes are signed over the same payload hash, the hash of the empty
\* string, and receive the same Authorization header, whenever each is signed.
C30_EmptyBodySameAuthorization ==
  \A p \in Procs :
    SignedZeroBytes(p) =>
      \A now \in Clock :
        \E ord \in BOOLEAN :
          LET twin == RunAlone(NilBodyTwin(p), entry[p].svc, entry[p].signTime,
                               now, ord)
          IN /\ PayloadHash(entry[p].req, BytesBody(""), entry[p].svc.context.service)
                  = PayloadHash(NilBodyTwin(p), Nil, entry[p].svc.context.service)
             /\ twin.err = Nil
             /\ Authorization(req[p]) = Authorization(twin.req)

\* The same for one reading of the wall clock: it holds, and so does the
\* formula above for every request that enters without an Authorization header.
C30_SameClockSameAuthorization ==
  \A p \in Procs :
    SignedZeroBytes(p) =>
      \E now \in Clock, ord \in BOOLEAN :
        LET twin == RunAlone(NilBodyTwin(p), entry[p].svc, entry[p].signTime,
                             now, ord)
        IN /\ PayloadHash(entry[p].req, BytesBody(""), entry[p].svc.context.service)
                = EmptyStringSHA256
           /\ PayloadHash(NilBodyTwin(p), Nil, entry[p].svc.context.service)
                = EmptyStringSHA256
           /\ twin.err = Nil
           /\ Authorization(req[p]) = Authorization(twin.req)


\* ------------------------------------------- setters during SetSignatureV4
\* One goroutine signs requests while another reconfigures the same Service:
\* neither the setters nor SetSignatureV4 take a lock, so a setter's store can
\* land between any two steps of a call.
NextRace == Setters \/ StepConc(1)

SpecRace == InitTest /\ [][NextRace]_vars

\* The (token, region, service) a returned call signed with: the token of the
\* credentials built at line 74, the region and service passed to signer.Sign
\* at line 83 or 88.
SignedWith(p) ==
  [token |-> loc[p].creds.token,
   region |-> Authorization(req[p]).credential.scope.region,
   service |-> Authorization(req[p]).credential.scope.service]

SigningContext(context) ==
  [token |-> context.token, region |-> context.region, service |-> context.service]

\* C22: a SetSignatureV4 call signs with the token, region and service of one
\* context that the Service held at some moment of the call, also when
\* SetToken, SetRegion and SetService run on the Service during the call.
C22_SignsWithOneSnapshot ==
  \A p \in Procs :
    (Succeeded(p) /\ kind[p] = "direct") =>
      \E context \in entry[p].contexts : SignedWith(p) = SigningContext(context)


\* ------------------------------------------- the refusal of woodstock-prod
\* C24: no sequence of RestoreDBClusterFromSnapshot calls sends AWS a restore
\* request with DBClusterIdentifier "woodstock-prod"; a call with that
\* identifier returns a response with the Error "woodstock-prod db cluster
\* cannot be restored" and neither builds nor uses the client.
C24_ProdNeverRestored ==
  rds # Nil =>
    /\ "woodstock-prod" \notin rds.issued
    /\ rds.opts.DBClusterIdentifier = "woodstock-prod" =>
         /\ rds.pc \in {"L158", "returned"}
         /\ rds.client = Nil /\ ~rds.created /\ rds.input = Nil
         /\ rds.pc = "returned" =>
              rds.resp = [Error |-> Err("woodstock-prod db cluster cannot be restored")]

C24_Witness ==
  /\ rds # Nil
  /\ rds.pc = "returned"
  /\ rds.opts.DBClusterIdentifier = "woodstock-prod"
  /\ rds.issued # {}


\* ------------------------------------------------ the error Set returns
\* C27: Set returns a non-nil error whenever its SET command failed, also
\* when ttlSeconds > 0 and the EXPIRE that follows succeeded.
C27_SetReportsFailedSET ==
  \A key \in CacheKeys :
    (lastSet[key] # Nil /\ lastSet[key].errSet # Nil) => lastSet[key].err # Nil


\* ------------------------------------------------- sqs ReceiveMessage
\* ReceiveMessageOptions: both fields are int64 and the caller is free to
\* pass any value.
ReceiveNumbers == -2 .. 12
ReceiveWaits == {-1, 0, 1, 10, 20}

ReceiveOpts ==
  [MaxNumberOfMessages : ReceiveNumbers, WaitTimeSeconds : ReceiveWaits]

\* What client.ReceiveMessage returns as its error.
ReceiveErrors == {Nil, Err("RequestError: send request failed")}

\* if opts.MaxNumberOfMessages == 0 || opts.MaxNumberOfMessages > 10 {
\*   opts.MaxNumberOfMessages = 1 }
\* if opts.WaitTimeSeconds == 0 { opts.WaitTimeSeconds = 10 }
\* and the *sqs.ReceiveMessageInput built from opts.
ReceiveInput(opts) ==
  [MaxNumberOfMessages |->
     IF opts.MaxNumberOfMessages = 0 \/ opts.MaxNumberOfMessages > 10
       THEN 1 ELSE opts.MaxNumberOfMessages,
   WaitTimeSeconds |->
     IF opts.WaitTimeSeconds = 0 THEN 10 ELSE opts.WaitTimeSeconds]

\* A caller is about to run ReceiveMessage(opts); given is what it passed.
InitReceive ==
  /\ receive \in [given : ReceiveOpts, pc : {"L242"}, input : {Nil}, err : {Nil},
                  resp : {Nil}]
  /\ upload = Nil
  /\ WrapperOnly

\* resp = new(ReceiveMessageResponse); client := s.client(); the two
\* replacements; client.ReceiveMessage(input).
ReceiveSend ==
  /\ receive # Nil
  /\ receive.pc = "L242"
  /\ \E e \in ReceiveErrors :
       receive' = [receive EXCEPT !.input = ReceiveInput(receive.given),
                                  !.err = e, !.pc = "L259"]
  /\ UNCHANGED upload
  /\ UNCHANGED notWrapper

\* if err != nil { resp.Error = err } else { resp.Messages = messages }; return
ReceiveReturn ==
  /\ receive # Nil
  /\ receive.pc = "L259"
  /\ receive' = [receive EXCEPT !.resp = [Error |-> receive.err], !.pc = "returned"]
  /\ UNCHANGED upload
  /\ UNCHANGED notWrapper

NextReceive == ReceiveSend \/ ReceiveReturn

SpecReceive == InitReceive /\ [][NextReceive]_vars

\* C26: the MaxNumberOfMessages that ReceiveMessage sends to SQS is between 1
\* and 10 for every value the caller supplied, and the WaitTimeSeconds it
\* sends is 10 when the caller supplied 0.
C26_ReceiveInputInRange ==
  (receive # Nil /\ receive.input # Nil) =>
    /\ receive.input.MaxNumberOfMessages \in 1 .. 10
    /\ receive.given.WaitTimeSeconds = 0 => receive.input.WaitTimeSeconds = 10


\* ------------------------------------------------------------ s3 Upload
\* The local files a caller names, and what os.Open finds: Nil when the file
\* cannot be opened, otherwise its content.
FileNames == {"testdata/test.txt", "testdata/empty.txt", "testdata/missing.txt"}

Disk(name) ==
  CASE name = "testdata/test.txt" -> [content |-> "hello"]
    [] name = "testdata/empty.txt" -> [content |-> ""]
    [] OTHER -> Nil

\* filepath.Base
FileBase(name) == SubSeq(name, Len("testdata/") + 1, Len(name))

\* resolveObjName: path.Join(subdirectory, filepath.Base(fullfilename))
ResolveObjName(subdirectory, name) ==
  IF subdirectory = "" THEN FileBase(name) ELSE subdirectory \o "/" \o FileBase(name)

\* resolveContentType: os.Open, Read of the first 512 bytes (io.EOF on an
\* empty file), http.DetectContentType; Upload turns an error into "".
ResolveContentType(name) ==
  IF Disk(name) = Nil \/ Disk(name).content = "" THEN "" ELSE "text/plain; charset=utf-8"

UploadOpts ==
  [FileName : FileNames, SubDirectory : {"", "sub"}, Public : BOOLEAN,
   Encryption : {"", "AES256", "aws:kms"}, Attachment : BOOLEAN]

\* What client.PutObjectWithContext returns as its error.
PutObjectErrors == {Nil, Err("NoSuchBucket")}

\* The *s3.PutObjectInput of lines 176-204.
PutObjectInput(opts, buffer) ==
  [Bucket |-> "woodstock-test", Key |-> ResolveObjName(opts.SubDirectory, opts.FileName),
   Body |-> buffer, ContentLength |-> Len(buffer),
   ContentType |-> ResolveContentType(opts.FileName),
   ContentDisposition |-> IF opts.Attachment THEN "attachment" ELSE "",
   ACL |-> IF opts.Public THEN "public-read" ELSE "private",
   ServerSideEncryption |-> opts.Encryption]

\* fmt.Sprintf("https://s3-%s.amazonaws.com/%s/%s", region, bucket, objname)
UploadLocation(opts) ==
  "https://s3-ap-northeast-1.amazonaws.com/woodstock-test/"
    \o ResolveObjName(opts.SubDirectory, opts.FileName)

\* A caller is about to run Upload(opts).
InitUpload ==
  /\ upload \in [opts : UploadOpts, pc : {"L147"}, file : {Nil}, buffer : {""},
                 resp : {Nil}, put : {Nil}]
  /\ receive = Nil
  /\ WrapperOnly

\* resp = new(UploadResponse) ... file, err := os.Open(filenamme);
\* if err != nil { resp.Error = fmt.Errorf("failed to read local file") }
\* and the function goes on.
UploadOpen ==
  /\ upload # Nil
  /\ upload.pc = "L147"
  /\ LET file == Disk(upload.opts.FileName)
     IN upload' = [upload EXCEPT
                     !.file = file,
                     !.resp = [Location |-> "",
                               Error |-> IF file = Nil
                                           THEN Err("failed to read local file")
                                           ELSE Nil],
                     !.pc = "L172"]
  /\ UNCHANGED receive
  /\ UNCHANGED notWrapper

\* fileInfo, _ := file.Stat(); size := fileInfo.Size(); file.Read(buffer).
\* Stat on a nil *os.File returns (nil, os.ErrInvalid), and Size() on the nil
\* FileInfo is a nil dereference.
UploadStat ==
  /\ upload # Nil
  /\ upload.pc = "L172"
  /\ upload' = IF upload.file = Nil
                 THEN [upload EXCEPT !.pc = "panic"]
                 ELSE [upload EXCEPT !.buffer = upload.file.content, !.pc = "L206"]
  /\ UNCHANGED receive
  /\ UNCHANGED notWrapper

\* client.PutObjectWithContext(ctx, putobjectinput) and the response.
UploadPut ==
  /\ upload # Nil
  /\ upload.pc = "L206"
  /\ \E e \in PutObjectErrors :
       upload' = [upload EXCEPT
                    !.put = PutObjectInput(upload.opts, upload.buffer),
                    !.resp = IF e # Nil THEN [upload.resp EXCEPT !.Error = e]
                             ELSE [upload.resp EXCEPT
                                     !.Location = UploadLocation(upload.opts)],
                    !.pc = "returned"]
  /\ UNCHANGED receive
  /\ UNCHANGED notWrapper

NextUpload == UploadOpen \/ UploadStat \/ UploadPut

SpecUpload == InitUpload /\ [][NextUpload]_vars

\* C28: when the local file named in UploadOptions.FileName cannot be opened,
\* Upload returns a response whose Error is "failed to read local file" and
\* whose Location is empty; it does not panic and sends no PutObject request.
C28_UnreadableFileReported ==
  (upload # Nil /\ upload.pc \in {"returned", "panic"}
     /\ Disk(upload.opts.FileName) = Nil) =>
    /\ upload.pc = "returned"
    /\ upload.resp = [Location |-> "", Error |-> Err("failed to read local file")]
    /\ upload.put = Nil


\* ------------------------------------------- rds DescribeLatestDBSnapshot
MaxSnapshots == 2

\* SnapshotCreateTime is a *time.Time: nil while AWS has not finished taking
\* the snapshot, otherwise a time.
CreateTimes == {Nil, [unix |-> 1], [unix |-> 2]}

\* t.After(u)
After(t, u) == t.unix > u.unix

DescribeOpts ==
  [DBClusterIdentifier : DBClusterIdentifiers,
   SnapshotType : {"", "automated", "manual"}, Timeout : {0, 60}]

\* The DBClusterSnapshots that DescribeDBClusterSnapshotsWithContext can
\* return for a cluster: AWS lists snapshots of that cluster only.
SnapshotLists(cluster) ==
  UNION { [1 .. n -> {[DBClusterSnapshotIdentifier |-> id, DBClusterIdentifier |-> cluster,
                       SnapshotCreateTime |-> t] :
                        id \in {"rds:snapshot"}, t \in CreateTimes}] :
          n \in 0 .. MaxSnapshots }

\* DescribeDBSnapshots: the response starts with an empty Snapshots slice and
\* gets either the SDK's error or its snapshots.
DescribeResponses(opts) ==
  {[Snapshots |-> <<>>, Error |-> Err("RequestCanceled")]}
    \cup {[Snapshots |-> l, Error |-> Nil] : l \in SnapshotLists(opts.DBClusterIdentifier)}

\* sort.Slice on fewer than 12 elements is an insertion sort: element i moves
\* left while less(i, i-1), and less is "created after".
RECURSIVE InsertLeft(_, _)
InsertLeft(l, j) ==
  IF j > 1 /\ After(l[j].SnapshotCreateTime, l[j - 1].SnapshotCreateTime)
    THEN InsertLeft([l EXCEPT ![j] = l[j - 1], ![j - 1] = l[j]], j - 1)
    ELSE l

RECURSIVE InsertionSort(_, _)
InsertionSort(l, i) ==
  IF i > Len(l) THEN l ELSE InsertionSort(InsertLeft(l, i), i + 1)

\* With two or more elements the sort compares every element with a
\* neighbour, and the comparison dereferences both SnapshotCreateTime pointers.
SortPanics(l) ==
  Len(l) >= 2 /\ \E i \in 1 .. Len(l) : l[i].SnapshotCreateTime = Nil

\* A caller is about to run DescribeLatestDBSnapshot(opts).
InitLatest ==
  /\ rds \in [opts : DescribeOpts, pc : {"L141"}, snapshotsResp : {Nil},
              snapshot : {Nil}, err : {Nil}]
  /\ RdsOnly

\* snapshotsResp := s.DescribeDBSnapshots(opts)
DescribeDBSnapshots ==
  /\ rds # Nil
  /\ rds.pc = "L141"
  /\ \E r \in DescribeResponses(rds.opts) :
       rds' = [rds EXCEPT !.snapshotsResp = r, !.pc = "L142"]
  /\ UNCHANGED notRds

\* Lines 142-154: the error, the empty list, the sort and Snapshots[0].
LatestReturn ==
  /\ rds # Nil
  /\ rds.pc = "L142"
  /\ LET r == rds.snapshotsResp
     IN rds' = IF r.Error # Nil
                 THEN [rds EXCEPT !.err = r.Error, !.pc = "returned"]
               ELSE IF Len(r.Snapshots) = 0
                 THEN [rds EXCEPT !.pc = "returned"]
               ELSE IF SortPanics(r.Snapshots)
                 THEN [rds EXCEPT !.pc = "panic"]
               ELSE [rds EXCEPT !.snapshot = InsertionSort(r.Snapshots, 2)[1],
                                !.pc = "returned"]
  /\ UNCHANGED notRds

NextLatest == DescribeDBSnapshots \/ LatestReturn

SpecLatest == InitLatest /\ [][NextLatest]_vars

\* C29: DescribeLatestDBSnapshot returns (nil, err) when DescribeDBSnapshots
\* failed, (nil, nil) when there is no snapshot, and otherwise a snapshot of
\* the described cluster that was created no earlier than any other snapshot
\* returned.
C29_LatestSnapshot ==
  (rds # Nil /\ rds.pc \in {"returned", "panic"}) =>
    LET r == rds.snapshotsResp
    IN /\ rds.pc = "returned"
       /\ r.Error # Nil => (rds.snapshot = Nil /\ rds.err = r.Error)
       /\ (r.Error = Nil /\ Len(r.Snapshots) = 0) =>
            (rds.snapshot = Nil /\ rds.err = Nil)
       /\ (r.Error = Nil /\ Len(r.Snapshots) > 0) =>
            /\ rds.err = Nil
            /\ \E i \in 1 .. Len(r.Snapshots) : rds.snapshot = r.Snapshots[i]
            /\ rds.snapshot.DBClusterIdentifier = rds.opts.DBClusterIdentifier
            /\ \A i \in 1 .. Len(r.Snapshots) :
                 (r.Snapshots[i].SnapshotCreateTime # Nil
                    /\ rds.snapshot.SnapshotCreateTime # Nil)
                   => ~After(r.Snapshots[i].SnapshotCreateTime,
                             rds.snapshot.SnapshotCreateTime)


\* ------------------------------------- the package-level client (sync.Once)
\* Every wrapper package keeps `var once sync.Once` and `var instance` at
\* package level and builds the instance inside once.Do in client() (dynamo:
\* Instance()).  s3, sqs, ses, rds and secretsmanager build it from the
\* region (and credentials) of the Service the method was called on;
\* cloudsearch's client(search bool) and dynamo add an endpoint.
WrapperPackages == {"s3", "cloudsearch"}

Goroutines == 1 .. 2
ServiceIds == 1 .. 2
ClientRegions == {"ap-northeast-1", "us-east-1"}

\* NewService(key, secret) followed by the setters of initService.
NewServices ==
  [i \in ServiceIds |->
     [region |-> IF i = 1 THEN "ap-northeast-1" ELSE "us-east-1",
      accessKey |-> IF i = 1 THEN "AKID1" ELSE "AKID2",
      accessSecret |-> IF i = 1 THEN "SECRET1" ELSE "SECRET2",
      searchEndpoint |-> "search-woodstock-stg",
      documentEndpoint |-> "doc-woodstock-stg"]]

\* The operations that call client(): Search is client(true), Upload is
\* client(false); List stands for the operations of the other packages.
OpsOf(pkg) == IF pkg = "cloudsearch" THEN {"Search", "Upload"} ELSE {"List"}

\* endpoint := s.context.searchEndpoint; if !search { endpoint = documentEndpoint }
EndpointArg(s, op) ==
  CASE op = "Search" -> s.searchEndpoint
    [] op = "Upload" -> s.documentEndpoint
    [] OTHER -> ""

\* session.NewSession(&aws.Config{Region, Endpoint, Credentials}) and New(sess).
NewClient(s, endpoint, by, n) ==
  [region |-> s.region, endpoint |-> endpoint, accessKey |-> s.accessKey,
   accessSecret |-> s.accessSecret, by |-> by, n |-> n]

\* sync.Once.doSlow: under the mutex, f runs if done is still 0.
OnceAlwaysRuns(o) == TRUE

OnceMayRun(o) == ~o.done

NoCall == [pc |-> "idle", s |-> 1, op |-> "", endpoint |-> "", client |-> Nil,
           via |-> Nil]

InitClient ==
  /\ once \in [pkg : WrapperPackages, done : {FALSE}, m : {0}, built : {0},
               raced : {FALSE}]
  /\ instance = Nil
  /\ services = NewServices
  /\ gos = [g \in Goroutines |-> NoCall]
  /\ ClientOnly

\* SetRegion on one of the Services, at any time.
ClientSetRegion(i, region) ==
  /\ services' = [services EXCEPT ![i].region = region]
  /\ UNCHANGED <<once, instance, gos>>
  /\ UNCHANGED notClient

\* A goroutine calls an operation on a Service; the operation calls client(),
\* which picks the endpoint before once.Do.
ClientEnter(g, i, op) ==
  /\ gos[g].pc = "idle"
  /\ gos' = [gos EXCEPT ![g] = [NoCall EXCEPT !.pc = "Do", !.s = i, !.op = op,
                                  !.endpoint = EndpointArg(services[i], op)]]
  /\ UNCHANGED <<once, instance, services>>
  /\ UNCHANGED notClient

\* once.Do when done is set: f is not called.
OnceDone(g) ==
  /\ gos[g].pc = "Do"
  /\ once.m = 0
  /\ ~OnceMayRun(once)
  /\ gos' = [gos EXCEPT ![g].pc = "return"]
  /\ UNCHANGED <<once, instance, services>>
  /\ UNCHANGED notClient

\* once.Do when done is not set: the goroutine takes the mutex; the others
\* that reach once.Do wait until it is released.
OnceLock(g) ==
  /\ gos[g].pc = "Do"
  /\ once.m = 0
  /\ OnceMayRun(once)
  /\ once' = [once EXCEPT !.m = g,
                          !.raced = @ \/ \E h \in Goroutines \ {g} : gos[h].pc = "Do"]
  /\ gos' = [gos EXCEPT ![g].pc = "f"]
  /\ UNCHANGED <<instance, services>>
  /\ UNCHANGED notClient

\* f: the session is built from what the Service holds now and the endpoint
\* picked at entry; instance is assigned; done is set and the mutex released.
OnceF(g) ==
  /\ gos[g].pc = "f"
  /\ instance' = NewClient(services[gos[g].s], gos[g].endpoint, gos[g].s,
                           once.built + 1)
  /\ once' = [once EXCEPT !.done = TRUE, !.m = 0,
                          !.built = IF @ = 0 THEN 1 ELSE 2]
  /\ gos' = [gos EXCEPT ![g].pc = "return"]
  /\ UNCHANGED services
  /\ UNCHANGED notClient

\* return instance
ClientReturn(g) ==
  /\ gos[g].pc = "return"
  /\ gos' = [gos EXCEPT ![g].client = instance, ![g].pc = "request"]
  /\ UNCHANGED <<once, instance, services>>
  /\ UNCHANGED notClient

\* The operation sends its request through the client it got.
ClientRequest(g) ==
  /\ gos[g].pc = "request"
  /\ gos' = [gos EXCEPT ![g].via = gos[g].client, ![g].pc = "done"]
  /\ UNCHANGED <<once, instance, services>>
  /\ UNCHANGED notClient

\* The operation returns; the goroutine is free for its next call.
ClientDone(g) ==
  /\ gos[g].pc = "done"
  /\ gos' = [gos EXCEPT ![g].pc = "idle"]
  /\ UNCHANGED <<once, instance, services>>
  /\ UNCHANGED notClient

NextClient ==
  \/ \E i \in ServiceIds, region \in ClientRegions : ClientSetRegion(i, region)
  \/ \E g \in Goroutines, i \in ServiceIds :
       \E op \in OpsOf(once.pkg) : ClientEnter(g, i, op)
  \/ \E g \in Goroutines : OnceDone(g)
  \/ \E g \in Goroutines : OnceLock(g)
  \/ \E g \in Goroutines : OnceF(g)
  \/ \E g \in Goroutines : ClientReturn(g)
  \/ \E g \in Goroutines : ClientRequest(g)
  \/ \E g \in Goroutines : ClientDone(g)

SpecClient == InitClient /\ [][NextClient]_vars

\* C21: the client of a wrapper package is built at most once, also when the
\* first calls race; it carries the credentials of the Service whose call
\* built it; and every client() call, by any Service and after any SetRegion,
\* returns that one instance.
C21_ClientIsSingleton ==
  /\ once.built <= 1
  /\ (instance # Nil) <=> once.done
  /\ instance # Nil =>
       /\ instance.n = 1
       /\ instance.accessKey = services[instance.by].accessKey
       /\ instance.accessSecret = services[instance.by].accessSecret
  /\ \A g \in Goroutines :
       gos[g].pc \in {"request", "done"} =>
         (gos[g].client # Nil /\ gos[g].client = instance)
  /\ \A g, h \in Goroutines :
       (gos[g].client # Nil /\ gos[h].client # Nil) => gos[g].client = gos[h].client

\* Two first calls raced, and a Service with other credentials and another
\* region got the instance that the first one built.
C21_Witness ==
  /\ once.raced
  /\ \E g \in Goroutines :
       /\ gos[g].pc = "done"
       /\ gos[g].s # instance.by
       /\ services[gos[g].s].region # instance.region
       /\ services[instance.by].region # instance.region

\* C23: a cloudsearch Search request goes through a client configured with
\* the search endpoint and an Upload request through a client configured with
\* the document endpoint, in whatever order the two are called.
C23_EndpointMatchesOperation ==
  \A g \in Goroutines :
    (once.pkg = "cloudsearch" /\ gos[g].pc = "done") =>
      gos[g].via.endpoint = EndpointArg(services[gos[g].s], gos[g].op)


\* ------------------------------------------- cancelling Subscribe's context
\* The caller cancels the context it passed to Subscribe.
Cancel ==
  /\ sub.state \in {"subscribed", "broken"}
  /\ ~sub.cancelled
  /\ sub' = [sub EXCEPT !.cancelled = TRUE]
  /\ UNCHANGED <<wire, pubsubChan, gor, published, handled>>
  /\ UNCHANGED notPubSub

\* case <-ctx.Done(): return, and the deferred calls.  select takes any case
\* that is ready, so a message waiting in the channel may be taken instead.
SubCtxDone ==
  /\ gor.subscriber = "select"
  /\ sub.cancelled
  /\ gor' = [gor EXCEPT !.subscriber = "exit"]
  /\ sub' = SubscriberDefers(sub)
  /\ UNCHANGED <<wire, pubsubChan, published, handled>>
  /\ UNCHANGED notPubSub

\* The server reads UNSUBSCRIBE, after the SUBSCRIBE that was written before
\* it: the connection gets no more messages and is sent the confirmation.
ServerUnsubscribe ==
  /\ sub.unsubscribing
  /\ ~sub.inflight
  /\ sub' = [sub EXCEPT !.unsubscribing = FALSE, !.server = FALSE]
  /\ wire' = Append(wire, [kind |-> "unsubscribe", id |-> 0, data |-> ""])
  /\ UNCHANGED <<pubsubChan, gor, published, handled>>
  /\ UNCHANGED notPubSub

NextCancel == NextPubSub \/ Cancel \/ SubCtxDone \/ ServerUnsubscribe

SpecCancel == InitPubSub /\ [][NextCancel]_vars

\* The server executes the commands it is sent, the Go scheduler runs both
\* goroutines whenever they can take a step, and the handler returns.
SpecCancelFair ==
  /\ SpecCancel
  /\ WF_vars(ServerSubscribe) /\ WF_vars(ServerUnsubscribe)
  /\ WF_vars(PubReceive) /\ WF_vars(PubSend)
  /\ WF_vars(SubTake) /\ WF_vars(HandlerReturn) /\ WF_vars(SubChanClosed)
  /\ WF_vars(SubCtxDone)

\* C25: after the context passed to Subscribe is cancelled, both goroutines
\* started by Subscribe eventually terminate and the pooled connection is
\* unsubscribed and closed exactly once, also when messages keep arriving and
\* the buffered channel is full when the context is cancelled.
C25_CancelStopsBothGoroutines ==
  /\ [](sub.unsubscribes <= 1 /\ sub.closes <= 1)
  /\ sub.cancelled ~> /\ gor.subscriber = "exit"
                      /\ gor.publisher = "exit"
                      /\ sub.unsubscribes = 1
                      /\ sub.closes = 1

====
